---------------------------- MODULE Spec2Model ----------------------------
(***************************************************************************)
(* Hyperschedule API: the JSON tree diff algebra (hyperschedule/api/diff.py)*)
(* the DiffManager that keeps a pruned history of diffs-to-present, and the *)
(* Database that serves it to concurrent HTTP handlers.                     *)
(*                                                                          *)
(* A JSON value is a record [kind, val, kids]:                              *)
(*   kind = "atom": a non-dict value, val names it, kids is empty;          *)
(*   kind = "dict": a Python dict, kids maps its keys to values;            *)
(*   kind = "unset": the util.Unset singleton.                              *)
(***************************************************************************)
EXTENDS Integers, Sequences, FiniteSets, TLC

VARIABLES
    ta, tb, tc,     \* inputs of the diff algebra (three JSON objects)
    res,            \* result of the last algebra computation
    step,           \* which algebra computation has run
    state,          \* DiffManager.state: (age, data, [(age, diff), ...])
    snaps,          \* log of the set_current_data calls made so far
    reply,          \* what the last get_diff_to_present call returned
    clock,          \* int(datetime.datetime.now().timestamp())
    lock,           \* Database.lock: "free" or the thread that holds it
    diff_managers,  \* Database.diff_managers: scraper -> term -> state
    terms,          \* Database.terms: scraper -> list of term descriptors
    most_recent_terms, \* Database.most_recent_terms: scraper -> descriptor
    wpc, wloc,      \* POST handlers: position and local variables
    rpc, rloc,      \* GET handlers: position and local variables
    held,           \* what the client of each GET handler holds
    resp,           \* the last response each GET handler produced
    disordered,     \* the diff managers that were given a lower age
    versions,       \* the (state, descriptor) pairs ingests have installed
    posts, reads,   \* number of ingests and of GET requests begun
    worker_state,   \* DiffWorker.diff_manager.state, with its list's identity
    list0,          \* content of the list object made by DiffManager.__init__
    ipc, iloc,      \* refresh iterations: position and local variables
    vpc, vloc,      \* /api/v3/courses handlers: position and locals
    worker_installed, \* the states the refresh worker has installed
    env,            \* the config vars snitch, cache and s3_write
    wresp,          \* what each POST handler answered
    stamps,         \* the timestamp each rate limiter holds
    io,             \* log of webhook requests, cache writes and timers
    my_crn,         \* cu_boulder tasks(): the loop variable of the generator
    yielded,        \* the number of tasks the generator has yielded
    threads,        \* process_parallel: position and task of each thread
    parallel,       \* process_parallel: num_done, error, its return value
    fetched,        \* how often each CRN was requested from the CU API
    completed,      \* cu_boulder main(): the set `completed`
    course_data,    \* server.py: the thread-global course_data
    applied,        \* log of the update_course_data calls made so far
    served          \* the last answer to /api/v2/courses-since/<since>

algVars == <<ta, tb, tc, res, step>>
mgrVars == <<state, snaps, reply>>
dbVars == <<lock, diff_managers, terms, most_recent_terms, wpc, wloc,
            rpc, rloc, disordered, versions>>
wkVars == <<worker_state, list0, ipc, iloc, vpc, vloc, worker_installed>>
\* what the Database and the refresh worker models share
srvVars == <<clock, held, resp, posts, reads>>
\* the environment: configuration, rate limiters and external effects
ioVars == <<env, wresp, stamps, io>>
\* the CU Boulder scraper
scrVars == <<my_crn, yielded, threads, parallel, fetched, completed>>
\* the legacy server of /api/v2
v2Vars == <<course_data, applied, served>>
vars == <<ta, tb, tc, res, step, state, snaps, reply,
          clock, lock, diff_managers, terms, most_recent_terms, wpc, wloc,
          rpc, rloc, held, resp, disordered, versions, posts, reads,
          worker_state, list0, ipc, iloc, vpc, vloc, worker_installed,
          env, wresp, stamps, io,
          my_crn, yielded, threads, parallel, fetched, completed,
          course_data, applied, served>>

---------------------------------------------------------------------------
(* Bounds of the model.                                                    *)

\* number of distinct atoms the generated JSON objects draw from
NumAtoms == 2
\* set_current_data is called with ages 1..MaxAge
MaxAge == 3
\* number of set_current_data calls on one DiffManager
MaxCalls == 3
\* the clock runs from 1 to MaxClock seconds
MaxClock == 2
\* number of ingests (POST requests and refresh iterations) and of GET
\* requests the servers handle
MaxPosts == 2
MaxReads == 2
\* a caller whose clock advances calls set_current_data with ages up to
\* MaxPruneAge
MaxPruneAge == 8
\* the number of threads process_parallel runs at a time (cu_boulder main
\* passes concurrency=8) and the number of CRNs left to fetch
Concurrency == 2
NumCRNs == 3
\* MAX_UPDATES_SAVED of server.py, which is 100 there, scaled down
MAX_UPDATES_SAVED == 2
\* how many times the legacy server fetches the course list: enough to
\* outgrow the saved updates
MaxFetches == MAX_UPDATES_SAVED + 2

AtomNames == <<"a", "b", "c", "d">>
Atoms == {AtomNames[i] : i \in 1..NumAtoms}
Keys == {"x", "y"}

---------------------------------------------------------------------------
(* JSON values.                                                            *)

NoKids == [k \in {} |-> ""]
Atom(v) == [kind |-> "atom", val |-> v, kids |-> NoKids]
Dict(f) == [kind |-> "dict", val |-> "", kids |-> f]
Unset == [kind |-> "unset", val |-> "", kids |-> NoKids]
\* the age and the `since` argument are integers or Unset
UnsetAge == -1
\* the `full` element of a reply is a Python bool or Unset
PyTrue == "True"
PyFalse == "False"
UnsetFull == "Unset"

\* the literal "$delete"
Delete == Atom("$delete")
isdict(o) == o.kind = "dict"
EmptyDict == Dict(NoKids)
\* the dict {k: v}
Single(k, v) == Dict([j \in {k} |-> v])

\* every dict with keys among ks and values among vs
DictsOver(ks, vs) == {Dict(f) : f \in UNION {[D -> vs] : D \in SUBSET ks}}
AtomTrees == {Atom(v) : v \in Atoms}
Trees1 == AtomTrees \cup DictsOver(Keys, AtomTrees)
\* atoms and dicts nested to depth 2 over Keys
Trees2 == AtomTrees \cup DictsOver(Keys, Trees1)
\* atoms and dicts with the one key "x" whose value is in Trees1
TreesSmall == AtomTrees \cup DictsOver({"x"}, Trees1)

\* diffs: atoms, the sentinel, and dicts with the one key "x" whose value
\* is an atom, the sentinel or a dict of those over Keys
Diffs1 == AtomTrees \cup {Delete}
             \cup DictsOver(Keys, AtomTrees \cup {Delete})
DiffsSmall == AtomTrees \cup {Delete} \cup DictsOver({"x"}, Diffs1)

RECURSIVE HasDelete(_)
\* the sentinel occurs somewhere in o
HasDelete(o) ==
    IF isdict(o) THEN \E k \in DOMAIN o.kids : HasDelete(o.kids[k])
    ELSE o = Delete

---------------------------------------------------------------------------
(* hyperschedule/api/diff.py: compute_diff, apply_diff, merge_diffs.       *)

RECURSIVE compute_diff(_, _)
RECURSIVE apply_diff(_, _)
RECURSIVE merge_diffs(_, _)

\* compute_diff without the loop that marks removed keys
compute_diff_nodelete(o1, o2) ==
    IF ~isdict(o1) \/ ~isdict(o2) THEN o2
    ELSE LET changed == {k \in DOMAIN o2.kids :
                            k \notin DOMAIN o1.kids \/ o2.kids[k] # o1.kids[k]}
         IN  Dict([k \in changed |->
                    IF k \notin DOMAIN o1.kids THEN o2.kids[k]
                    ELSE compute_diff(o1.kids[k], o2.kids[k])])

compute_diff(o1, o2) ==
    IF ~isdict(o1) \/ ~isdict(o2) THEN o2
    ELSE LET changed == {k \in DOMAIN o2.kids :
                            k \notin DOMAIN o1.kids \/ o2.kids[k] # o1.kids[k]}
             removed == DOMAIN o1.kids \ DOMAIN o2.kids
         IN  Dict([k \in changed \cup removed |->
                    IF k \in removed THEN Delete
                    ELSE IF k \notin DOMAIN o1.kids THEN o2.kids[k]
                    ELSE compute_diff(o1.kids[k], o2.kids[k])])

\* apply_diff without the `except KeyError: pass` around o.pop(k): removing
\* a key that o does not have raises, and no object is returned
apply_diff_strictpop(o, d) ==
    IF ~isdict(o) \/ ~isdict(d) THEN d
    ELSE LET deleted == {k \in DOMAIN d.kids : d.kids[k] = Delete}
             keys == (DOMAIN o.kids \cup DOMAIN d.kids) \ deleted
         IN  IF ~(deleted \subseteq DOMAIN o.kids) THEN Unset
             ELSE Dict([k \in keys |->
                    IF k \notin DOMAIN d.kids THEN o.kids[k]
                    ELSE IF k \notin DOMAIN o.kids THEN d.kids[k]
                    ELSE apply_diff(o.kids[k], d.kids[k])])

apply_diff(o, d) ==
    IF ~isdict(o) \/ ~isdict(d) THEN d
    ELSE LET deleted == {k \in DOMAIN d.kids : d.kids[k] = Delete}
             keys == (DOMAIN o.kids \cup DOMAIN d.kids) \ deleted
         IN  Dict([k \in keys |->
                    IF k \notin DOMAIN d.kids THEN o.kids[k]
                    ELSE IF k \notin DOMAIN o.kids THEN d.kids[k]
                    ELSE apply_diff(o.kids[k], d.kids[k])])

merge_diffs(d1, d2) ==
    IF ~isdict(d1) \/ ~isdict(d2) THEN d2
    ELSE Dict([k \in DOMAIN d1.kids \cup DOMAIN d2.kids |->
                    IF k \notin DOMAIN d1.kids THEN d2.kids[k]
                    ELSE IF k \notin DOMAIN d2.kids THEN d1.kids[k]
                    ELSE merge_diffs(d1.kids[k], d2.kids[k])])

---------------------------------------------------------------------------
(* hyperschedule/api/diff.py: class DiffManager.                           *)

\* DiffManager.__init__ with from_state=Unset
EmptyState == [age |-> UnsetAge, data |-> Unset, diffs |-> <<>>]

\* diffs.pop(i)
RemoveAt(s, i) == SubSeq(s, 1, i - 1) \o SubSeq(s, i + 1, Len(s))

RECURSIVE prune(_, _, _, _)

\* the pruning loop that drops nothing
prune_never(diffs, i, new_age, long_enough_to_keep) == diffs

\* the pruning loop that drops an entry when new_age - old_age is at most
\* long_enough_to_keep
prune_inclusive(diffs, i, new_age, long_enough_to_keep) ==
    IF i = 0 THEN diffs
    ELSE IF new_age - diffs[i].age <= long_enough_to_keep
         THEN prune(RemoveAt(diffs, i), i - 1, new_age, long_enough_to_keep)
         ELSE prune(diffs, i - 1, new_age, long_enough_to_keep * 2)

\* the pruning loop of set_current_data, at index i (1-based), going down
prune(diffs, i, new_age, long_enough_to_keep) ==
    IF i = 0 THEN diffs
    ELSE IF new_age - diffs[i].age < long_enough_to_keep
         THEN prune(RemoveAt(diffs, i), i - 1, new_age, long_enough_to_keep)
         ELSE prune(diffs, i - 1, new_age, long_enough_to_keep * 2)

\* set_current_data that pushes the new entry under new_age instead of
\* current_age
set_current_data_newage(st, new_age, new_data) ==
    LET pruned == IF st.diffs # <<>>
                  THEN prune(st.diffs, Len(st.diffs), new_age, 1)
                  ELSE st.diffs
        new_diff == compute_diff(st.data, new_data)
        pushed == Append(pruned, [age |-> new_age, diff |-> EmptyDict])
        diffs == IF st.data # Unset
                 THEN [i \in 1..Len(pushed) |->
                          [age |-> pushed[i].age,
                           diff |-> merge_diffs(pushed[i].diff, new_diff)]]
                 ELSE pruned
    IN  [age |-> new_age, data |-> new_data, diffs |-> diffs]

\* DiffManager.set_current_data: the new value of self.state
set_current_data(st, new_age, new_data) ==
    LET pruned == IF st.diffs # <<>>
                  THEN prune(st.diffs, Len(st.diffs), new_age, 1)
                  ELSE st.diffs
        new_diff == compute_diff(st.data, new_data)
        pushed == Append(pruned, [age |-> st.age, diff |-> EmptyDict])
        diffs == IF st.data # Unset
                 THEN [i \in 1..Len(pushed) |->
                          [age |-> pushed[i].age,
                           diff |-> merge_diffs(pushed[i].diff, new_diff)]]
                 ELSE pruned
    IN  [age |-> new_age, data |-> new_data, diffs |-> diffs]

\* get_diff_to_present that falls back on the oldest retained diff
get_diff_to_present_oldest(st, since) ==
    LET older == {i \in 1..Len(st.diffs) : since >= st.diffs[i].age}
        newest == CHOOSE i \in older : \A j \in older : j <= i
    IN  IF since # UnsetAge /\ st.data = Unset
        THEN [diff |-> Unset, full |-> UnsetFull, age |-> UnsetAge]
        ELSE IF since # UnsetAge /\ since >= st.age
        THEN [diff |-> EmptyDict, full |-> PyFalse, age |-> st.age]
        ELSE IF since # UnsetAge /\ older # {}
        THEN [diff |-> st.diffs[newest].diff, full |-> PyFalse,
              age |-> st.age]
        ELSE IF since # UnsetAge /\ st.diffs # <<>>
        THEN [diff |-> st.diffs[1].diff, full |-> PyFalse, age |-> st.age]
        ELSE [diff |-> st.data, full |-> PyTrue, age |-> st.age]

\* get_diff_to_present that scans for since > age
get_diff_to_present_strict(st, since) ==
    LET older == {i \in 1..Len(st.diffs) : since > st.diffs[i].age}
        newest == CHOOSE i \in older : \A j \in older : j <= i
    IN  IF since # UnsetAge /\ st.data = Unset
        THEN [diff |-> Unset, full |-> UnsetFull, age |-> UnsetAge]
        ELSE IF since # UnsetAge /\ since >= st.age
        THEN [diff |-> EmptyDict, full |-> PyFalse, age |-> st.age]
        ELSE IF since # UnsetAge /\ older # {}
        THEN [diff |-> st.diffs[newest].diff, full |-> PyFalse,
              age |-> st.age]
        ELSE [diff |-> st.data, full |-> PyTrue, age |-> st.age]

\* DiffManager.get_diff_to_present: the tuple (diff, full, current_age)
get_diff_to_present(st, since) ==
    LET older == {i \in 1..Len(st.diffs) : since >= st.diffs[i].age}
        newest == CHOOSE i \in older : \A j \in older : j <= i
    IN  IF since # UnsetAge /\ st.data = Unset
        THEN [diff |-> Unset, full |-> UnsetFull, age |-> UnsetAge]
        ELSE IF since # UnsetAge /\ since >= st.age
        THEN [diff |-> EmptyDict, full |-> PyFalse, age |-> st.age]
        ELSE IF since # UnsetAge /\ older # {}
        THEN [diff |-> st.diffs[newest].diff, full |-> PyFalse,
              age |-> st.age]
        ELSE [diff |-> st.data, full |-> PyTrue, age |-> st.age]

---------------------------------------------------------------------------
(* hyperschedule/api/database.py: class Database.                          *)

\* a term code or a requested term that is Unset
UnsetStr == "<Unset>"
Scrapers == {"s"}
TermCodes == {"FA2024"}
\* the "term" field of a POST body: termCode, termName, termSortKey
TermDescs ==
    {[termCode |-> "FA2024", termName |-> n, termSortKey |-> <<2024>>] :
        n \in {"Fall 2024", "FA 2024"}}
\* the "courses" field of a POST body
CourseMaps == {EmptyDict, Single("x", Atom("a"))}

\* the scrapers, term codes and descriptors of a catalog of several terms.
\* An item of termSortKey is a bool or an int, modelled as a number >= 0
\* (False = 0, True = 1), or a str, modelled as a number < 0
AllScrapers == {"s", "t"}
AllTermCodes == {"FA2024", "SP2025"}
AllTermDescs ==
    { [termCode |-> "FA2024", termName |-> "Fall 2024",
       termSortKey |-> <<2024, 0>>],
      [termCode |-> "SP2025", termName |-> "Spring 2025",
       termSortKey |-> <<2025, 1>>],
      [termCode |-> "FA2024", termName |-> "Fall 2024 (late)",
       termSortKey |-> <<2025, 1, 0>>],
      [termCode |-> "SP2025", termName |-> "Spring 2025",
       termSortKey |-> <<2025, -1>>] }

Writers == {"w1", "w2"}
Readers == {"r1"}

\* d[k] = v on a Python dict d
Put(d, k, v) == [x \in DOMAIN d \cup {k} |-> IF x = k THEN v ELSE d[x]]

RECURSIVE list_raises(_, _)
\* a > b on Python lists raises TypeError: the first items that differ are
\* a str and a number
list_raises(a, b) ==
    IF a = <<>> \/ b = <<>> THEN FALSE
    ELSE IF a[1] # b[1] THEN (a[1] < 0) # (b[1] < 0)
    ELSE list_raises(Tail(a), Tail(b))

RECURSIVE list_lt(_, _)
\* a < b on Python lists whose first differing items are comparable
list_lt(a, b) ==
    IF a = <<>> THEN b # <<>>
    ELSE IF b = <<>> THEN FALSE
    ELSE IF a[1] # b[1] THEN a[1] < b[1]
    ELSE list_lt(Tail(a), Tail(b))

\* self.terms[scraper_id], a dict in insertion order keyed by termCode
has_term(ts, code) == \E i \in 1..Len(ts) : ts[i].termCode = code
get_term(ts, code) ==
    ts[CHOOSE i \in 1..Len(ts) : ts[i].termCode = code]
\* the assignment that keeps the descriptor a term already has
set_term_keep(ts, desc) ==
    IF has_term(ts, desc.termCode) THEN ts ELSE Append(ts, desc)

set_term(ts, desc) ==
    IF has_term(ts, desc.termCode)
    THEN [i \in 1..Len(ts) |->
             IF ts[i].termCode = desc.termCode THEN desc ELSE ts[i]]
    ELSE Append(ts, desc)

RECURSIVE max_scan(_, _, _)
\* the loop of max(term_list, key=...): the index of the maximum so far is
\* best, item i is compared with it; 0 when a comparison raises
max_scan(ts, best, i) ==
    IF i > Len(ts) THEN best
    ELSE IF list_raises(ts[i].termSortKey, ts[best].termSortKey) THEN 0
    ELSE IF list_lt(ts[best].termSortKey, ts[i].termSortKey)
         THEN max_scan(ts, i, i + 1)
         ELSE max_scan(ts, best, i + 1)

\* max(term_list, key=lambda t: t["termSortKey"]) raises TypeError
max_raises(ts) == max_scan(ts, 1, 2) = 0

\* the term stored last instead of the maximum
max_term_last(ts) == ts[Len(ts)]

\* max(term_list, key=lambda t: t["termSortKey"]): the first maximal one
max_term(ts) == ts[max_scan(ts, 1, 2)]

\* threading.Lock: acquire blocks while another thread holds the lock
lock_unheld_always == TRUE

lock_unheld == lock = "free"

\* self.diff_managers[scraper_id][term_code] on the nested defaultdict
manager_of(dm, scraper, code) ==
    IF scraper \in DOMAIN dm /\ code \in DOMAIN dm[scraper]
    THEN dm[scraper][code]
    ELSE EmptyState
with_manager(dm, scraper, code, st) ==
    Put(dm, scraper,
        Put(IF scraper \in DOMAIN dm THEN dm[scraper] ELSE <<>>, code, st))

IdleWriter == [scraper |-> UnsetStr, term |-> UnsetStr, courses |-> Unset,
               ts |-> UnsetAge, st |-> EmptyState]
IdleReader == [scraper |-> UnsetStr, asked |-> UnsetAge, since |-> UnsetAge,
               current_term |-> UnsetStr, requested_term |-> UnsetStr,
               st |-> EmptyState]
NoTerm == [termCode |-> UnsetStr, termName |-> UnsetStr,
           termSortKey |-> <<>>]
NothingHeld == [age |-> UnsetAge, tree |-> Unset, term |-> UnsetStr,
                until |-> UnsetAge]
NoResp == [status |-> "none", asked |-> UnsetAge, since |-> UnsetAge,
           scraper |-> UnsetStr, diff |-> Unset, full |-> UnsetFull,
           age |-> UnsetAge, term |-> NoTerm, prev |-> NothingHeld,
           cur |-> Unset, current_term |-> UnsetStr, seen |-> 0,
           requested_term |-> UnsetStr]

\* the config vars snitch, cache and s3_write, as get_env_boolean reads
\* them; all three disabled
EnvOff == [snitch |-> FALSE, cache |-> FALSE, s3_write |-> FALSE]
Envs == [snitch : BOOLEAN, cache : BOOLEAN, s3_write : BOOLEAN]

\* what a POST handler answered: "none" while it has not, "ok" for
\* {"error": null}, "error" for {"error": message} and "500" for an
\* exception that no error handler takes; with it, whether the body met
\* the schema, the catalog when the request came in, and what became of
\* the success webhook
NoPostReply == [status |-> "none", schema_ok |-> TRUE, before |-> <<>>,
                notified |-> "none"]

\* an entry of the log of external effects
Event(kind, by, sent, ok) ==
    [kind |-> kind, by |-> by, at |-> clock, sent |-> sent, ok |-> ok]

\* the moments at which the limiters are exercised, in seconds
Times == {1, 5, 6, 301, 306}

\* notify.WEBHOOK_RATE_LIMIT
WEBHOOK_RATE_LIMIT == 5 * 60

\* the wall clock advances to a later moment
TimePasses(t) ==
    /\ t > clock
    /\ clock' = t
    /\ UNCHANGED <<held, resp, posts, reads, dbVars, wkVars, algVars,
                   mgrVars, ioVars, scrVars, v2Vars>>

\* the wall clock advances by one second
Tick ==
    /\ clock < MaxClock
    /\ clock' = clock + 1
    /\ UNCHANGED <<held, resp, posts, reads, dbVars, wkVars, algVars,
                   mgrVars, ioVars, scrVars, v2Vars>>

\* view_api_v4_post reads the fields of the body and calls
\* Database.set_current_data, which takes the timestamp
begin_post(w, scraper, desc, courses) ==
    /\ posts' = posts + 1
    /\ wloc' = [wloc EXCEPT ![w] =
                  [scraper |-> scraper, term |-> desc, courses |-> courses,
                   ts |-> clock, st |-> EmptyState]]
    /\ wpc' = [wpc EXCEPT ![w] = "lock"]

\* view_api_v4_post up to Database.set_current_data taking the timestamp
PostBegin(w, scraper, desc, courses) ==
    /\ wpc[w] = "idle"
    /\ posts < MaxPosts
    /\ begin_post(w, scraper, desc, courses)
    /\ UNCHANGED <<clock, lock, diff_managers, terms, most_recent_terms,
                   rpc, rloc, held, resp, disordered, versions, reads,
                   wkVars, algVars, mgrVars, ioVars,
                   scrVars, v2Vars>>

\* the JSON body of a POST request, by the type of the value at each key
\* ("missing" when the key is absent); `items` tells whether every item of
\* termSortKey is a bool, an int or a str, or one of them is a float
AllBodies ==
    [kind : {"dict", "list"},
     scraper : {"missing", "str", "int"},
     term : {"missing", "dict", "str"},
     termCode : {"missing", "str", "int"},
     termName : {"missing", "str", "int"},
     termSortKey : {"missing", "list", "str"},
     items : {"primitive", "float"},
     courses : {"missing", "dict", "str"}]
\* a body of a scraper's POST
GoodBody ==
    [kind |-> "dict", scraper |-> "str", term |-> "dict",
     termCode |-> "str", termName |-> "str", termSortKey |-> "list",
     items |-> "primitive", courses |-> "dict"]
\* the bodies that differ from it at no more than two keys
Bodies ==
    { b \in AllBodies :
        Cardinality({k \in DOMAIN GoodBody : b[k] # GoodBody[k]}) <= 2 }

\* validate.check(data): "ok" when it returns, else the exception it
\* raises; data[key] raises KeyError for an absent key, term_info.get(key)
\* gives None
check(data) ==
    IF data.kind # "dict" THEN "UserError"
    ELSE IF data.scraper = "missing" THEN "KeyError"
    ELSE IF data.scraper # "str" THEN "UserError"
    ELSE IF data.term = "missing" THEN "KeyError"
    ELSE IF data.term # "dict" THEN "UserError"
    ELSE IF data.termCode # "str" THEN "UserError"
    ELSE IF data.termName # "str" THEN "UserError"
    ELSE IF data.termSortKey = "missing" THEN "KeyError"
    ELSE IF data.termSortKey # "list" THEN "UserError"
    ELSE IF data.items # "primitive" THEN "UserError"
    ELSE "ok"

\* the body meets the schema of POST /courses
schema_ok(data) ==
    /\ data.kind = "dict"
    /\ data.scraper = "str"
    /\ data.term = "dict"
    /\ data.termCode = "str"
    /\ data.termName = "str"
    /\ data.termSortKey = "list"
    /\ data.items = "primitive"
    /\ data.courses = "dict"

\* Database.diff_managers, terms and most_recent_terms
catalog ==
    [diff_managers |-> diff_managers, terms |-> terms,
     most_recent_terms |-> most_recent_terms]

\* view_api_v4_post with any JSON body: validate.check, then the fields
\* are read (flask.request.json["courses"] raises KeyError when absent)
\* and handed to the Database. A body that passes spells the scraper "s",
\* the descriptor desc and, when its courses are a map, the map `courses`
PostRequest(w, data, desc, courses) ==
    /\ wpc[w] = "idle"
    /\ posts < MaxPosts
    /\ LET raised == IF check(data) # "ok" THEN check(data)
                     ELSE IF data.courses = "missing" THEN "KeyError"
                     ELSE "none"
           answer == [NoPostReply EXCEPT !.schema_ok = schema_ok(data),
                                        !.before = catalog]
       IN  IF raised = "none"
           THEN /\ begin_post(w, "s", desc,
                       IF data.courses = "dict" THEN courses ELSE Atom("a"))
                /\ wresp' = [wresp EXCEPT ![w] = answer]
           ELSE /\ posts' = posts + 1
                /\ wresp' = [wresp EXCEPT ![w] =
                      [answer EXCEPT !.status = IF raised = "UserError"
                                               THEN "error" ELSE "500"]]
                /\ UNCHANGED <<wpc, wloc>>
    /\ UNCHANGED <<clock, lock, diff_managers, terms, most_recent_terms,
                   rpc, rloc, held, resp, disordered, versions, reads,
                   wkVars, algVars, mgrVars, env, stamps, io,
                   scrVars, v2Vars>>

\* Database.set_current_data: with self.lock
PostAcquire(w) ==
    /\ wpc[w] = "lock"
    /\ lock_unheld
    /\ lock' = w
    /\ wpc' = [wpc EXCEPT ![w] = "set"]
    /\ UNCHANGED <<clock, diff_managers, terms, most_recent_terms, wloc,
                   rpc, rloc, held, resp, disordered, versions, posts, reads,
                   wkVars, algVars, mgrVars, ioVars,
                   scrVars, v2Vars>>

\* the diff manager is looked up (and created), set_current_data reads
\* self.state
PostSetEnter(w) ==
    /\ wpc[w] = "set"
    /\ LET scraper == wloc[w].scraper
           code == wloc[w].term.termCode
           st == manager_of(diff_managers, scraper, code)
       IN  /\ diff_managers' = with_manager(diff_managers, scraper, code, st)
           /\ wloc' = [wloc EXCEPT ![w].st = st]
    /\ wpc' = [wpc EXCEPT ![w] = "install"]
    /\ UNCHANGED <<clock, lock, terms, most_recent_terms,
                   rpc, rloc, held, resp, disordered, versions, posts, reads,
                   wkVars, algVars, mgrVars, ioVars,
                   scrVars, v2Vars>>

\* set_current_data assigns self.state and returns
PostInstall(w) ==
    /\ wpc[w] = "install"
    /\ LET scraper == wloc[w].scraper
           code == wloc[w].term.termCode
           old == wloc[w].st
       IN  /\ diff_managers' =
                 with_manager(diff_managers, scraper, code,
                     set_current_data(old, wloc[w].ts, wloc[w].courses))
           /\ disordered' =
                 IF old.data # Unset /\ wloc[w].ts < old.age
                 THEN disordered \cup {<<scraper, code>>}
                 ELSE disordered
    /\ wpc' = [wpc EXCEPT ![w] = "terms"]
    /\ UNCHANGED <<clock, lock, terms, most_recent_terms, wloc,
                   rpc, rloc, held, resp, versions, posts, reads,
                   wkVars, algVars, mgrVars, ioVars,
                   scrVars, v2Vars>>

\* the term is stored, the most recent term recomputed (or max raises
\* TypeError and the handler fails), the lock released; the handler goes
\* on to notify.report_success, which returns at once unless the config var
\* snitch is enabled, and answers
PostTerms(w) ==
    /\ wpc[w] = "terms"
    /\ LET scraper == wloc[w].scraper
           desc == wloc[w].term
           old == IF scraper \in DOMAIN terms THEN terms[scraper] ELSE <<>>
           new == set_term(old, desc)
       IN  /\ terms' = Put(terms, scraper, new)
           /\ most_recent_terms' =
                 IF max_raises(new) THEN most_recent_terms
                 ELSE Put(most_recent_terms, scraper, max_term(new))
           /\ versions' = versions \cup
                 {[scraper |-> scraper, code |-> desc.termCode,
                   state |-> diff_managers[scraper][desc.termCode],
                   desc |-> desc, n |-> Cardinality(versions) + 1]}
           /\ wpc' = [wpc EXCEPT ![w] =
                 IF ~max_raises(new) /\ env.snitch THEN "notify" ELSE "idle"]
           /\ wresp' = [wresp EXCEPT ![w].status =
                 IF max_raises(new) THEN "500"
                 ELSE IF env.snitch THEN @ ELSE "ok"]
    /\ lock' = "free"
    /\ wloc' = [wloc EXCEPT ![w] = IdleWriter]
    /\ UNCHANGED <<clock, diff_managers, rpc, rloc, held, resp, disordered,
                   posts, reads, wkVars, algVars, mgrVars, env, stamps, io,
                   scrVars, v2Vars>>

\* notify.Webhook.get up to requests.get: whether the request is sent,
\* and the new self.timestamp
notify_get(timestamp, now, rate_limit) ==
    IF timestamp # UnsetAge
    THEN IF now - timestamp < rate_limit
         THEN [send |-> FALSE, timestamp |-> timestamp]
         ELSE [send |-> TRUE, timestamp |-> now]
    ELSE [send |-> TRUE, timestamp |-> timestamp]

\* requests.get and raise_for_status raise a RequestException, which
\* neither Webhook.get, report_success nor view_api_v4_post catches
request_raised(ok) == ~ok

\* notify.report_success with snitch enabled: webhook.get sends the
\* request or not, the request succeeds or not, and the handler answers
PostNotify(w, ok) ==
    /\ wpc[w] = "notify"
    /\ LET got == notify_get(stamps.notify, clock, WEBHOOK_RATE_LIMIT)
       IN  /\ stamps' = [stamps EXCEPT !.notify = got.timestamp]
           /\ io' = Append(io, Event("notify", w, got.send, ok))
           /\ wresp' = [wresp EXCEPT
                 ![w].status = IF got.send /\ request_raised(ok)
                               THEN "500" ELSE "ok",
                 ![w].notified = IF ~got.send THEN "skipped"
                                 ELSE IF ok THEN "sent" ELSE "failed"]
    /\ wpc' = [wpc EXCEPT ![w] = "idle"]
    /\ UNCHANGED <<clock, lock, diff_managers, terms, most_recent_terms,
                   wloc, rpc, rloc, held, resp, disordered, versions, posts,
                   reads, wkVars, algVars, mgrVars, env,
                   scrVars, v2Vars>>

\* view_api_v4_get parses the query; the client sends no `since`, or the
\* age and term of the full data it holds
GetBegin(r, scraper, incremental, requested_term) ==
    /\ rpc[r] = "idle"
    /\ reads < MaxReads
    /\ incremental => held[r].age # UnsetAge
    /\ reads' = reads + 1
    /\ rloc' = [rloc EXCEPT ![r] =
                  [scraper |-> scraper,
                   asked |-> IF incremental THEN held[r].age ELSE UnsetAge,
                   since |-> IF incremental THEN held[r].age ELSE UnsetAge,
                   current_term |->
                       IF incremental THEN held[r].term ELSE UnsetStr,
                   requested_term |-> requested_term,
                   st |-> EmptyState]]
    /\ rpc' = [rpc EXCEPT ![r] = "lock"]
    /\ UNCHANGED <<clock, lock, diff_managers, terms, most_recent_terms,
                   wpc, wloc, held, resp, disordered, versions, posts,
                   wkVars, algVars, mgrVars, ioVars,
                   scrVars, v2Vars>>

\* Database.get_diff_to_present: with self.lock
GetAcquire(r) ==
    /\ rpc[r] = "lock"
    /\ lock_unheld
    /\ lock' = r
    /\ rpc' = [rpc EXCEPT ![r] = "read"]
    /\ UNCHANGED <<clock, diff_managers, terms, most_recent_terms, wpc, wloc,
                   rloc, held, resp, disordered, versions, posts, reads,
                   wkVars, algVars, mgrVars, ioVars,
                   scrVars, v2Vars>>

\* the handler answers with an error: UserError leaves the with block.
\* handle_user_error: the status is "503" for UserError(code=503), else the
\* message sent as {"error": message}
Fail(r, status) ==
    /\ resp' = [resp EXCEPT ![r] =
                  [NoResp EXCEPT !.status = status,
                                 !.asked = rloc[r].asked,
                                 !.scraper = rloc[r].scraper,
                                 !.prev = held[r],
                                 !.current_term = rloc[r].current_term,
                                 !.requested_term = rloc[r].requested_term,
                                 !.seen = Cardinality(versions)]]
    /\ lock' = "free"
    /\ rpc' = [rpc EXCEPT ![r] = "idle"]
    /\ rloc' = [rloc EXCEPT ![r] = IdleReader]
    /\ UNCHANGED held

\* view_api_v4_get with any query parameters: `since` without currentTerm
\* is refused before the Database is asked
GetQuery(r, scraper, since, current_term, requested_term) ==
    /\ rpc[r] = "idle"
    /\ reads < MaxReads
    /\ reads' = reads + 1
    /\ IF since # UnsetAge /\ current_term = UnsetStr
       THEN /\ resp' = [resp EXCEPT ![r] =
                          [NoResp EXCEPT !.status = "error",
                                         !.asked = since,
                                         !.scraper = scraper,
                                         !.prev = held[r],
                                         !.requested_term = requested_term]]
            /\ UNCHANGED <<rpc, rloc>>
       ELSE /\ rloc' = [rloc EXCEPT ![r] =
                          [scraper |-> scraper, asked |-> since,
                           since |-> since, current_term |-> current_term,
                           requested_term |-> requested_term,
                           st |-> EmptyState]]
            /\ rpc' = [rpc EXCEPT ![r] = "lock"]
            /\ UNCHANGED resp
    /\ UNCHANGED <<clock, lock, diff_managers, terms, most_recent_terms,
                   wpc, wloc, held, disordered, versions, posts,
                   wkVars, algVars, mgrVars, ioVars,
                   scrVars, v2Vars>>

\* GetRead that keeps `since` across terms
GetRead_keepsince(r) ==
    /\ rpc[r] = "read"
    /\ LET scraper == rloc[r].scraper
           requested ==
               IF rloc[r].requested_term = UnsetStr
               THEN most_recent_terms[scraper].termCode
               ELSE rloc[r].requested_term
           since == rloc[r].since
       IN  IF scraper \notin DOMAIN most_recent_terms
           THEN Fail(r, "503")
           ELSE IF scraper \notin DOMAIN diff_managers
           THEN Fail(r, "no such scraper")
           ELSE IF requested \notin DOMAIN diff_managers[scraper]
           THEN Fail(r, "no such term")
           ELSE /\ rloc' = [rloc EXCEPT
                               ![r].requested_term = requested,
                               ![r].since = since,
                               ![r].st = diff_managers[scraper][requested]]
                /\ rpc' = [rpc EXCEPT ![r] = "return"]
                /\ UNCHANGED <<lock, held, resp>>
    /\ UNCHANGED <<clock, diff_managers, terms, most_recent_terms, wpc, wloc,
                   disordered, versions, posts, reads, wkVars, algVars,
                   mgrVars, ioVars, scrVars, v2Vars>>

\* GetRead that reports an unknown scraper as a plain error
GetRead_nocheck(r) ==
    /\ rpc[r] = "read"
    /\ LET scraper == rloc[r].scraper
           requested ==
               IF rloc[r].requested_term = UnsetStr
               THEN most_recent_terms[scraper].termCode
               ELSE rloc[r].requested_term
           since == IF rloc[r].current_term # requested
                    THEN UnsetAge ELSE rloc[r].since
       IN  IF scraper \notin DOMAIN most_recent_terms
           THEN Fail(r, "error")
           ELSE IF scraper \notin DOMAIN diff_managers
           THEN Fail(r, "no such scraper")
           ELSE IF requested \notin DOMAIN diff_managers[scraper]
           THEN Fail(r, "no such term")
           ELSE /\ rloc' = [rloc EXCEPT
                               ![r].requested_term = requested,
                               ![r].since = since,
                               ![r].st = diff_managers[scraper][requested]]
                /\ rpc' = [rpc EXCEPT ![r] = "return"]
                /\ UNCHANGED <<lock, held, resp>>
    /\ UNCHANGED <<clock, diff_managers, terms, most_recent_terms, wpc, wloc,
                   disordered, versions, posts, reads, wkVars, algVars,
                   mgrVars, ioVars, scrVars, v2Vars>>

\* GetRead that reports an unknown term as data not available yet
GetRead_unavailable(r) ==
    /\ rpc[r] = "read"
    /\ LET scraper == rloc[r].scraper
           requested ==
               IF rloc[r].requested_term = UnsetStr
               THEN most_recent_terms[scraper].termCode
               ELSE rloc[r].requested_term
           since == IF rloc[r].current_term # requested
                    THEN UnsetAge ELSE rloc[r].since
       IN  IF scraper \notin DOMAIN most_recent_terms
           THEN Fail(r, "503")
           ELSE IF scraper \notin DOMAIN diff_managers
           THEN Fail(r, "no such scraper")
           ELSE IF requested \notin DOMAIN diff_managers[scraper]
           THEN Fail(r, "503")
           ELSE /\ rloc' = [rloc EXCEPT
                               ![r].requested_term = requested,
                               ![r].since = since,
                               ![r].st = diff_managers[scraper][requested]]
                /\ rpc' = [rpc EXCEPT ![r] = "return"]
                /\ UNCHANGED <<lock, held, resp>>
    /\ UNCHANGED <<clock, diff_managers, terms, most_recent_terms, wpc, wloc,
                   disordered, versions, posts, reads, wkVars, algVars,
                   mgrVars, ioVars, scrVars, v2Vars>>

\* GetRead that looks the diff manager up in the nested defaultdict
\* without _get_diff_manager, which makes one for an unknown term
GetRead_defaultdict(r) ==
    /\ rpc[r] = "read"
    /\ LET scraper == rloc[r].scraper
           requested ==
               IF rloc[r].requested_term = UnsetStr
               THEN most_recent_terms[scraper].termCode
               ELSE rloc[r].requested_term
           since == IF rloc[r].current_term # requested
                    THEN UnsetAge ELSE rloc[r].since
           st == manager_of(diff_managers, scraper, requested)
       IN  IF scraper \notin DOMAIN most_recent_terms
           THEN Fail(r, "503") /\ UNCHANGED diff_managers
           ELSE /\ diff_managers' =
                      with_manager(diff_managers, scraper, requested, st)
                /\ IF st.data = Unset
                   THEN Fail(r, "503")
                   ELSE /\ rloc' = [rloc EXCEPT
                                      ![r].requested_term = requested,
                                      ![r].since = since,
                                      ![r].st = st]
                        /\ rpc' = [rpc EXCEPT ![r] = "return"]
                        /\ UNCHANGED <<lock, held, resp>>
    /\ UNCHANGED <<clock, terms, most_recent_terms, wpc, wloc,
                   disordered, versions, posts, reads, wkVars, algVars,
                   mgrVars, ioVars, scrVars, v2Vars>>

\* the requested term is resolved, the diff manager found and its
\* get_diff_to_present reads self.state
GetRead(r) ==
    /\ rpc[r] = "read"
    /\ LET scraper == rloc[r].scraper
           requested ==
               IF rloc[r].requested_term = UnsetStr
               THEN most_recent_terms[scraper].termCode
               ELSE rloc[r].requested_term
           since == IF rloc[r].current_term # requested
                    THEN UnsetAge ELSE rloc[r].since
       IN  IF scraper \notin DOMAIN most_recent_terms
           THEN Fail(r, "503")
           ELSE IF scraper \notin DOMAIN diff_managers
           THEN Fail(r, "no such scraper")
           ELSE IF requested \notin DOMAIN diff_managers[scraper]
           THEN Fail(r, "no such term")
           ELSE /\ rloc' = [rloc EXCEPT
                               ![r].requested_term = requested,
                               ![r].since = since,
                               ![r].st = diff_managers[scraper][requested]]
                /\ rpc' = [rpc EXCEPT ![r] = "return"]
                /\ UNCHANGED <<lock, held, resp>>
    /\ UNCHANGED <<clock, diff_managers, terms, most_recent_terms, wpc, wloc,
                   disordered, versions, posts, reads, wkVars, algVars,
                   mgrVars, ioVars, scrVars, v2Vars>>

\* get_diff_to_present returns, the term descriptor is attached, the lock
\* released and the response sent; the client keeps a full payload
GetReturn(r) ==
    /\ rpc[r] = "return"
    /\ LET got == get_diff_to_present(rloc[r].st, rloc[r].since)
           term == get_term(terms[rloc[r].scraper], rloc[r].requested_term)
       IN  IF got.diff = Unset
           THEN Fail(r, "503")
           ELSE /\ resp' = [resp EXCEPT ![r] =
                              [status |-> "ok", asked |-> rloc[r].asked,
                               since |-> rloc[r].since,
                               scraper |-> rloc[r].scraper,
                               diff |-> got.diff, full |-> got.full,
                               age |-> got.age, term |-> term,
                               prev |-> held[r], cur |-> rloc[r].st.data,
                               current_term |-> rloc[r].current_term,
                               seen |-> Cardinality(versions),
                               requested_term |-> rloc[r].requested_term]]
                /\ held' = [held EXCEPT ![r] =
                              IF got.full = PyTrue
                              THEN [age |-> got.age, tree |-> got.diff,
                                    term |-> term.termCode,
                                    until |-> got.age]
                              ELSE [@ EXCEPT !.until = got.age]]
                /\ lock' = "free"
                /\ rpc' = [rpc EXCEPT ![r] = "idle"]
                /\ rloc' = [rloc EXCEPT ![r] = IdleReader]
    /\ UNCHANGED <<clock, diff_managers, terms, most_recent_terms, wpc, wloc,
                   disordered, versions, posts, reads, wkVars, algVars,
                   mgrVars, ioVars, scrVars, v2Vars>>

---------------------------------------------------------------------------
(* hyperschedule/worker.py: DiffWorker and its DiffManager, read without a *)
(* lock by the /api/v3/courses handlers of hyperschedule/app.py.           *)
(*                                                                         *)
(* DiffManager.__init__ makes one list object, []. set_current_data copies *)
(* the history only when it is non-empty, so while it is empty the states  *)
(* share that object and diffs.append changes it in place: `shared` tells  *)
(* that a state's history is that object, whose content is list0.          *)

V3Readers == {"v1"}
Clients == Readers \cup V3Readers
Iterations == 1..MaxPosts

\* the history list a state refers to
history_of(st) == IF st.shared THEN list0 ELSE st.diffs
\* the (age, data, history) value a state stands for
value_of(st) == [age |-> st.age, data |-> st.data, diffs |-> history_of(st)]

\* no scraper process has run
NoRun == [exit |-> "none", utf8 |-> TRUE, json |-> TRUE, out |-> Unset]
IdleIteration == [old_data |-> Unset, data |-> Unset, age |-> UnsetAge,
                  st |-> EmptyState, diffs |-> <<>>, inplace |-> FALSE,
                  run |-> NoRun, before |-> EmptyState, hook |-> "none",
                  cache |-> "none", s3_write |-> "none"]
IdleV3 == [since |-> UnsetAge,
           st |-> [age |-> UnsetAge, data |-> Unset, diffs |-> <<>>,
                   shared |-> FALSE]]

\* what the scraper process writes: nothing usable, or the JSON text of a
\* course map, in which the string "$delete" is spelled as it is or with
\* the escape \u0024 for "$"
ScraperOutputs ==
    { Unset, EmptyDict, Single("x", Atom("a")), Single("x", Delete),
      Single("x", Atom("\\u0024delete")) }

RECURSIVE json_loads(_)
\* json.loads(output): escapes are resolved
json_loads(o) ==
    IF isdict(o) THEN Dict([k \in DOMAIN o.kids |-> json_loads(o.kids[k])])
    ELSE IF o = Atom("\\u0024delete") THEN Delete
    ELSE o

\* compute_data: Unset when the scraper failed or "$delete" occurs in the
\* text of its output, else the parsed output
compute_data(output) ==
    IF output = Unset THEN Unset
    ELSE IF HasDelete(output) THEN Unset
    ELSE json_loads(output)

\* the "courses" field of a POST body, which validate.check does not look
\* into
PostedCourses == CourseMaps \cup {Single("x", Delete)}

\* target(): _, old_data = self.diff_manager.get_current_data()
IterGet(i) ==
    /\ ipc[i] = "get"
    /\ posts < MaxPosts
    /\ posts' = posts + 1
    /\ iloc' = [iloc EXCEPT ![i].old_data = worker_state.data]
    /\ ipc' = [ipc EXCEPT ![i] = "compute"]
    /\ UNCHANGED <<clock, held, resp, reads, worker_state, list0, vpc, vloc,
                   worker_installed, dbVars, algVars, mgrVars, ioVars,
                   scrVars, v2Vars>>

\* target() that returns without starting a timer when there is no data
after_compute_giveup(data) == IF data = Unset THEN "done" ELSE "set"

\* target() after compute_data: `if data is not Unset` the data is handed
\* to set_current_data, and in both cases the timer is started
after_compute(data) == IF data = Unset THEN "schedule" ELSE "set"

\* data = self.compute_data(old_data): the scraped courses, or Unset when
\* the scrape failed
IterCompute(i, data) ==
    /\ ipc[i] = "compute"
    /\ iloc' = [iloc EXCEPT ![i].data = data]
    /\ ipc' = [ipc EXCEPT ![i] = after_compute(data)]
    /\ UNCHANGED <<srvVars, worker_state, list0, vpc, vloc, worker_installed,
                   dbVars, algVars, mgrVars, ioVars,
                   scrVars, v2Vars>>

\* age = int(now); set_current_data reads self.state and prunes a copy of
\* a non-empty history
IterSetEnter(i) ==
    /\ ipc[i] = "set"
    /\ LET st == worker_state
           diffs == history_of(st)
       IN  /\ iloc' = [iloc EXCEPT
                         ![i].age = clock,
                         ![i].st = [age |-> st.age, data |-> st.data,
                                    diffs |-> diffs],
                         ![i].diffs =
                             IF diffs # <<>>
                             THEN prune(diffs, Len(diffs), clock, 1)
                             ELSE diffs,
                         ![i].inplace = (diffs = <<>> /\ st.shared)]
           /\ ipc' = [ipc EXCEPT ![i] =
                         IF st.data # Unset THEN "append" ELSE "install"]
    /\ UNCHANGED <<srvVars, worker_state, list0, vpc, vloc, worker_installed,
                   dbVars, algVars, mgrVars, ioVars,
                   scrVars, v2Vars>>

\* diffs.append((current_age, {})), on the shared list when it was not
\* copied
IterAppend(i) ==
    /\ ipc[i] = "append"
    /\ LET entry == [age |-> iloc[i].st.age, diff |-> EmptyDict]
       IN  IF iloc[i].inplace
           THEN /\ list0' = Append(list0, entry)
                /\ UNCHANGED iloc
           ELSE /\ iloc' = [iloc EXCEPT ![i].diffs = Append(@, entry)]
                /\ UNCHANGED list0
    /\ ipc' = [ipc EXCEPT ![i] = "install"]
    /\ UNCHANGED <<srvVars, worker_state, vpc, vloc, worker_installed,
                   dbVars, algVars, mgrVars, ioVars,
                   scrVars, v2Vars>>

\* the old diffs are merged with the new diff into a new list and
\* self.state is assigned
IterInstall(i) ==
    /\ ipc[i] = "install"
    /\ LET old == iloc[i].st
           diffs == IF iloc[i].inplace THEN list0 ELSE iloc[i].diffs
           new_diff == compute_diff(old.data, iloc[i].data)
           new == IF old.data # Unset
                  THEN [age |-> iloc[i].age, data |-> iloc[i].data,
                        diffs |-> [j \in 1..Len(diffs) |->
                            [age |-> diffs[j].age,
                             diff |-> merge_diffs(diffs[j].diff, new_diff)]],
                        shared |-> FALSE]
                  ELSE [age |-> iloc[i].age, data |-> iloc[i].data,
                        diffs |-> IF iloc[i].inplace THEN <<>> ELSE diffs,
                        shared |-> iloc[i].inplace]
       IN  /\ worker_state' = new
           /\ worker_installed' = worker_installed \cup
                 {[age |-> new.age, data |-> new.data,
                   diffs |-> IF new.shared THEN list0 ELSE new.diffs]}
    /\ ipc' = [ipc EXCEPT ![i] = "schedule"]
    /\ UNCHANGED <<srvVars, list0, iloc, vpc, vloc, dbVars, algVars, mgrVars, ioVars,
                   scrVars, v2Vars>>

\* worker.SCRAPER_REPEAT_DELAY, which HyperscheduleWorker passes as
\* repeat_delay
SCRAPER_REPEAT_DELAY == 86400

\* self.timer = threading.Timer(self.repeat_delay, target); start()
IterSchedule(i) ==
    /\ ipc[i] = "schedule"
    /\ ipc' = [j \in Iterations |->
                 IF j = i THEN "done"
                 ELSE IF j = i + 1 THEN "timer" ELSE ipc[j]]
    /\ iloc' = [iloc EXCEPT ![i] = IdleIteration]
    /\ io' = Append(io, [kind |-> "timer", by |-> i,
                         delay |-> SCRAPER_REPEAT_DELAY])
    /\ UNCHANGED <<srvVars, worker_state, list0, vpc, vloc, worker_installed,
                   dbVars, algVars, mgrVars, env, wresp, stamps,
                   scrVars, v2Vars>>

\* the timer expires and its thread calls target()
TimerFires(i) ==
    /\ ipc[i] = "timer"
    /\ ipc' = [ipc EXCEPT ![i] = "get"]
    /\ UNCHANGED <<srvVars, worker_state, list0, iloc, vpc, vloc,
                   worker_installed, dbVars, algVars, mgrVars, ioVars,
                   scrVars, v2Vars>>

---------------------------------------------------------------------------
(* hyperschedule/worker.py: one refresh cycle step by step. compute_data   *)
(* calls try_compute_data, which runs the scraper, parses its output,      *)
(* requests the success webhook, writes the caches and merges the syllabus *)
(* links; target() then installs the data.                                 *)

\* the dict {"courses": c}
Courses(c) == Single("courses", c)
\* the values a scraper's output spells
CycleOutputs ==
    { EmptyDict, Courses(EmptyDict), Courses(Single("x", EmptyDict)),
      Courses(Single("x", Atom("a"))), Courses(Single("x", Delete)) }

\* subprocess.Popen raised OSError: no process was started, nothing was
\* written
PopenFailed == [exit |-> "oserror", utf8 |-> TRUE, json |-> FALSE,
                out |-> Unset]

\* one run of a started scraper process: how communicate ended ("timeout"
\* when it raised TimeoutExpired, else the exit code zero or not), whether
\* what the process wrote decodes as UTF-8 and parses as JSON, and the
\* value it then spells (Unset when none). What a process wrote before it
\* timed out is its partial output
ScrapeRuns ==
    { r \in [exit : {"timeout", "nonzero", "zero"},
             utf8 : BOOLEAN, json : BOOLEAN,
             out : CycleOutputs \cup {Unset}] :
        /\ r.json <=> r.out # Unset
        /\ r.json => r.utf8 }

\* try_compute_data that does not look at the exit code
scrape_error_anyexit(run) ==
    IF run.exit = "oserror" THEN "unexpected error while running scraper"
    ELSE IF run.exit = "timeout" THEN "scraper timed out"
    ELSE IF ~run.utf8 THEN "scraper emitted malformed output"
    ELSE IF HasDelete(run.out) THEN "scraper output contains '$delete'"
    ELSE IF ~run.json THEN "scraper did not return valid JSON"
    ELSE "none"

\* try_compute_data from Popen to json.loads: the message of the
\* ScrapeError it raises, or "none"
scrape_error(run) ==
    IF run.exit = "oserror" THEN "unexpected error while running scraper"
    ELSE IF run.exit = "timeout" THEN "scraper timed out"
    ELSE IF run.exit # "zero" THEN "scraper failed"
    ELSE IF ~run.utf8 THEN "scraper emitted malformed output"
    ELSE IF HasDelete(run.out) THEN "scraper output contains '$delete'"
    ELSE IF ~run.json THEN "scraper did not return valid JSON"
    ELSE "none"

\* decorated() of rate_limited: whether fn is called, and the new
\* last_timestamp
rate_limited(last_timestamp, timestamp, rate_limit) ==
    IF last_timestamp # UnsetAge /\ timestamp - last_timestamp < rate_limit
    THEN [call |-> FALSE, last_timestamp |-> last_timestamp]
    ELSE [call |-> TRUE, last_timestamp |-> timestamp]

\* worker.WEBHOOK_TIMEOUT, which HyperscheduleWorker passes to Webhook as
\* rate_limit
WEBHOOK_TIMEOUT == 5
\* worker.S3_RATE_LIMIT
S3_RATE_LIMIT == 5 * 60

\* the course codes that may have a syllabus, and the info stored for one
SyllabusCodes == {"x"}
SyllabusInfo == Single("link", Atom("a"))

\* merge_syllabus_info_to_courses(data) raises KeyError (no "courses") or
\* TypeError (a course that is not a map)
merge_raises(data, syllabus_info) ==
    /\ syllabus_info # {}
    /\ \/ "courses" \notin DOMAIN data.kids
       \/ \E c \in syllabus_info \cap DOMAIN data.kids["courses"].kids :
              ~isdict(data.kids["courses"].kids[c])

\* merge_syllabus_info_to_courses(data): data with the key "syllabus" set
\* in every course that has one
merge_syllabus_info_to_courses(data, syllabus_info) ==
    IF syllabus_info = {} THEN data
    ELSE LET courses == data.kids["courses"].kids
         IN  Dict([k \in DOMAIN data.kids |->
                IF k # "courses" THEN data.kids[k]
                ELSE Dict([c \in DOMAIN courses |->
                        IF c \in syllabus_info
                        THEN Dict(Put(courses[c].kids, "syllabus",
                                      SyllabusInfo))
                        ELSE courses[c]])])

\* what a side effect of the cycle came to
effect(called, ok) ==
    IF ~called THEN "skipped" ELSE IF ok THEN "ok" ELSE "failed"

\* the scraper process of iteration i has been started and has neither
\* exited nor been reaped
alive(i) ==
    \E n \in 1..Len(io) :
        /\ io[n].kind = "spawn" /\ io[n].by = i
        /\ \A m \in (n + 1)..Len(io) :
              ~(io[m].kind \in {"exit", "reap"} /\ io[m].by = i)

\* try_compute_data calls subprocess.Popen: the scraper process is started,
\* or OSError is raised and turned into a ScrapeError, which makes
\* compute_data return Unset
CyclePopen(i, started) ==
    /\ ipc[i] = "compute"
    /\ IF started
       THEN /\ io' = Append(io, Event("spawn", i, TRUE, TRUE))
            /\ iloc' = [iloc EXCEPT ![i].before = value_of(worker_state)]
            /\ ipc' = [ipc EXCEPT ![i] = "communicate"]
       ELSE /\ iloc' = [iloc EXCEPT ![i].run = PopenFailed,
                                    ![i].before = value_of(worker_state),
                                    ![i].data = Unset]
            /\ ipc' = [ipc EXCEPT ![i] = after_compute(Unset)]
            /\ UNCHANGED io
    /\ UNCHANGED <<srvVars, worker_state, list0, vpc, vloc, worker_installed,
                   dbVars, algVars, mgrVars, env, wresp, stamps,
                   scrVars, v2Vars>>

\* CycleScrape whose handler of TimeoutExpired raises the ScrapeError
\* without process.kill() and process.communicate()
CycleScrape_nokill(i, run) ==
    /\ ipc[i] = "communicate"
    /\ LET error == scrape_error(run)
           data == IF error = "none" THEN json_loads(run.out) ELSE Unset
       IN  /\ iloc' = [iloc EXCEPT ![i].run = run,
                                   ![i].before = value_of(worker_state),
                                   ![i].data = data]
           /\ ipc' = [ipc EXCEPT ![i] =
                 IF error = "none" THEN "webhook" ELSE after_compute(data)]
           /\ io' = IF run.exit = "timeout" THEN io
                    ELSE Append(io, Event("exit", i, TRUE,
                                          run.exit = "zero"))
    /\ UNCHANGED <<srvVars, worker_state, list0, vpc, vloc, worker_installed,
                   dbVars, algVars, mgrVars, env, wresp, stamps,
                   scrVars, v2Vars>>

\* process.communicate(input, timeout) returns when the process has exited,
\* and its output is parsed, or raises TimeoutExpired while the process
\* still runs; a ScrapeError makes compute_data return Unset
CycleScrape(i, run) ==
    /\ ipc[i] = "communicate"
    /\ LET error == scrape_error(run)
           data == IF error = "none" THEN json_loads(run.out) ELSE Unset
       IN  /\ iloc' = [iloc EXCEPT ![i].run = run,
                                   ![i].before = value_of(worker_state),
                                   ![i].data = data]
           /\ ipc' = [ipc EXCEPT ![i] =
                 IF run.exit = "timeout" THEN "kill"
                 ELSE IF error = "none" THEN "webhook"
                 ELSE after_compute(data)]
           /\ io' = IF run.exit = "timeout" THEN io
                    ELSE Append(io, Event("exit", i, TRUE,
                                          run.exit = "zero"))
    /\ UNCHANGED <<srvVars, worker_state, list0, vpc, vloc, worker_installed,
                   dbVars, algVars, mgrVars, env, wresp, stamps,
                   scrVars, v2Vars>>

\* the handler of TimeoutExpired: process.kill(), process.communicate()
\* reaps the process, and the ScrapeError makes compute_data return Unset
CycleKill(i) ==
    /\ ipc[i] = "kill"
    /\ io' = Append(io, Event("reap", i, TRUE, TRUE))
    /\ ipc' = [ipc EXCEPT ![i] = after_compute(iloc[i].data)]
    /\ UNCHANGED <<srvVars, worker_state, list0, iloc, vpc, vloc,
                   worker_installed, dbVars, algVars, mgrVars, env, wresp,
                   stamps, scrVars, v2Vars>>

\* CycleWebhook where a failed request ends the cycle without data
CycleWebhook_propagate(i, ok) ==
    /\ ipc[i] = "webhook"
    /\ IF env.snitch
       THEN LET got == rate_limited(stamps.webhook, clock, WEBHOOK_TIMEOUT)
            IN  /\ stamps' = [stamps EXCEPT
                                 !.webhook = got.last_timestamp]
                /\ io' = Append(io, Event("webhook", i, got.call,
                                          got.call /\ ok))
                /\ iloc' = [iloc EXCEPT
                      ![i].hook = effect(got.call, ok),
                      ![i].data = IF got.call /\ ~ok THEN Unset ELSE @]
                /\ ipc' = [ipc EXCEPT ![i] =
                      IF got.call /\ ~ok THEN "schedule" ELSE "cache"]
       ELSE /\ ipc' = [ipc EXCEPT ![i] = "cache"]
            /\ UNCHANGED <<stamps, io, iloc>>
    /\ UNCHANGED <<srvVars, worker_state, list0, vpc, vloc, worker_installed,
                   dbVars, algVars, mgrVars, env, wresp,
                   scrVars, v2Vars>>

\* `if util.get_env_boolean("snitch"): webhook.get()`: the rate-limited
\* request is sent or not and succeeds or not; the RequestException of a
\* failed one is caught after the cache writes, which it skips
CycleWebhook(i, ok) ==
    /\ ipc[i] = "webhook"
    /\ IF env.snitch
       THEN LET got == rate_limited(stamps.webhook, clock, WEBHOOK_TIMEOUT)
            IN  /\ stamps' = [stamps EXCEPT
                                 !.webhook = got.last_timestamp]
                /\ io' = Append(io, Event("webhook", i, got.call,
                                          got.call /\ ok))
                /\ iloc' = [iloc EXCEPT ![i].hook = effect(got.call, ok)]
                /\ ipc' = [ipc EXCEPT ![i] =
                      IF got.call /\ ~ok THEN "merge" ELSE "cache"]
       ELSE /\ ipc' = [ipc EXCEPT ![i] = "cache"]
            /\ UNCHANGED <<stamps, io, iloc>>
    /\ UNCHANGED <<srvVars, worker_state, list0, vpc, vloc, worker_installed,
                   dbVars, algVars, mgrVars, env, wresp,
                   scrVars, v2Vars>>

\* `if util.get_env_boolean("cache"): cache_file_write(data)`, which
\* catches the OSError of a failed write
CycleCache(i, ok) ==
    /\ ipc[i] = "cache"
    /\ IF env.cache
       THEN /\ io' = Append(io, Event("cache", i, TRUE, ok))
            /\ iloc' = [iloc EXCEPT ![i].cache = effect(TRUE, ok)]
       ELSE UNCHANGED <<io, iloc>>
    /\ ipc' = [ipc EXCEPT ![i] = "s3_write"]
    /\ UNCHANGED <<srvVars, worker_state, list0, vpc, vloc, worker_installed,
                   dbVars, algVars, mgrVars, env, wresp, stamps,
                   scrVars, v2Vars>>

\* `if util.get_env_boolean("s3_write"): s3_write(s3, data)`, rate-limited;
\* it catches the errors of a failed put
CycleS3Write(i, ok) ==
    /\ ipc[i] = "s3_write"
    /\ IF env.s3_write
       THEN LET got == rate_limited(stamps.s3_write, clock, S3_RATE_LIMIT)
            IN  /\ stamps' = [stamps EXCEPT
                                 !.s3_write = got.last_timestamp]
                /\ io' = Append(io, Event("s3_write", i, got.call,
                                          got.call /\ ok))
                /\ iloc' = [iloc EXCEPT
                               ![i].s3_write = effect(got.call, ok)]
       ELSE UNCHANGED <<stamps, io, iloc>>
    /\ ipc' = [ipc EXCEPT ![i] = "merge"]
    /\ UNCHANGED <<srvVars, worker_state, list0, vpc, vloc, worker_installed,
                   dbVars, algVars, mgrVars, env, wresp,
                   scrVars, v2Vars>>

\* database.merge_syllabus_info_to_courses(data) and return data; the
\* exception it may raise makes compute_data return Unset
CycleMerge(i, syllabus_info) ==
    /\ ipc[i] = "merge"
    /\ LET data == IF merge_raises(iloc[i].data, syllabus_info) THEN Unset
                   ELSE merge_syllabus_info_to_courses(iloc[i].data,
                                                       syllabus_info)
       IN  /\ iloc' = [iloc EXCEPT ![i].data = data]
           /\ ipc' = [ipc EXCEPT ![i] = after_compute(data)]
    /\ UNCHANGED <<srvVars, worker_state, list0, vpc, vloc, worker_installed,
                   dbVars, algVars, mgrVars, ioVars,
                   scrVars, v2Vars>>

\* a response of view_api_v3
V3Respond(c, since, got) ==
    /\ resp' = [resp EXCEPT ![c] =
                  IF got.diff = Unset
                  THEN [NoResp EXCEPT !.status = "error", !.asked = since,
                                      !.prev = held[c]]
                  ELSE [status |-> "ok", asked |-> since, since |-> since,
                        scraper |-> UnsetStr, diff |-> got.diff,
                        full |-> got.full, age |-> got.age, term |-> NoTerm,
                        prev |-> held[c], cur |-> got.cur,
                        current_term |-> UnsetStr, seen |-> 0,
                        requested_term |-> UnsetStr]]
    /\ held' = [held EXCEPT ![c] =
                  IF got.diff = Unset THEN @
                  ELSE IF got.full = PyTrue
                  THEN [age |-> got.age, tree |-> got.diff,
                        term |-> UnsetStr, until |-> got.age]
                  ELSE [@ EXCEPT !.until = got.age]]

\* view_api_v3 without `since`: app.worker.get_current_data()
V3GetCurrent(c) ==
    /\ vpc[c] = "idle"
    /\ reads < MaxReads
    /\ reads' = reads + 1
    /\ V3Respond(c, UnsetAge,
                 [diff |-> worker_state.data, full |-> PyTrue,
                  age |-> worker_state.age, cur |-> worker_state.data])
    /\ UNCHANGED <<clock, posts, wkVars, dbVars, algVars, mgrVars, ioVars,
                   scrVars, v2Vars>>

\* view_api_v3 with the age the client holds as `since`:
\* get_diff_to_present reads self.state
V3Read(c) ==
    /\ vpc[c] = "idle"
    /\ reads < MaxReads
    /\ held[c].age # UnsetAge
    /\ reads' = reads + 1
    /\ vloc' = [vloc EXCEPT ![c] =
                  [since |-> held[c].age, st |-> worker_state]]
    /\ vpc' = [vpc EXCEPT ![c] = "scan"]
    /\ UNCHANGED <<clock, held, resp, posts, worker_state, list0, ipc, iloc,
                   worker_installed, dbVars, algVars, mgrVars, ioVars,
                   scrVars, v2Vars>>

\* get_diff_to_present compares the ages, walks the history and returns
V3Return(c) ==
    /\ vpc[c] = "scan"
    /\ V3Respond(c, vloc[c].since,
                 get_diff_to_present(value_of(vloc[c].st), vloc[c].since)
                    @@ [cur |-> vloc[c].st.data])
    /\ vpc' = [vpc EXCEPT ![c] = "idle"]
    /\ vloc' = [vloc EXCEPT ![c] = IdleV3]
    /\ UNCHANGED <<clock, posts, reads, worker_state, list0, ipc, iloc,
                   worker_installed, dbVars, algVars, mgrVars, ioVars,
                   scrVars, v2Vars>>

---------------------------------------------------------------------------
(* One DiffManager driven by its callers.                                  *)

Ages == 1..MaxAge
\* the course maps handed to set_current_data
SampleTrees ==
    { EmptyDict,
      Single("x", Atom("a")),
      Single("x", Single("x", Atom("a"))),
      Single("x", Single("y", Atom("a"))) }

NoReply == [called |-> FALSE, since |-> UnsetAge, diff |-> Unset,
            full |-> UnsetFull, age |-> UnsetAge]

\* a caller runs set_current_data(new_age, new_data)
SetCurrent(new_age, new_data) ==
    /\ Len(snaps) < MaxCalls
    /\ state' = set_current_data(state, new_age, new_data)
    /\ snaps' = Append(snaps, [age |-> new_age, data |-> new_data])
    /\ reply' = NoReply
    /\ UNCHANGED <<algVars, dbVars, wkVars, srvVars, ioVars, scrVars, v2Vars>>

\* a caller runs get_diff_to_present(since)
GetDiff(since) ==
    /\ reply' = [called |-> TRUE, since |-> since]
                  @@ get_diff_to_present(state, since)
    /\ UNCHANGED <<state, snaps, algVars, dbVars, wkVars, srvVars, ioVars,
                   scrVars, v2Vars>>

\* a caller whose clock has advanced since its last call runs
\* set_current_data(new_age, new_data)
SetNewer(new_age, new_data) ==
    /\ new_age > state.age
    /\ state' = set_current_data(state, new_age, new_data)
    /\ snaps' = Append(snaps, [age |-> new_age, data |-> new_data])
    /\ reply' = NoReply
    /\ UNCHANGED <<algVars, dbVars, wkVars, srvVars, ioVars, scrVars, v2Vars>>

\* the ages of the ingests of the promotion scenario: t1, t2 = t1 + 10,
\* t3 = t2 + 10, then t4..t13 each 1 apart, then t13 + 1000000
PromotionAges(t1) ==
    <<t1, t1 + 10, t1 + 20>> \o [i \in 1..10 |-> t1 + 20 + i]
        \o <<t1 + 30 + 1000000>>
\* the courses of its first three ingests: {"A":1}, {"A":1,"B":2}, {"A":1}
PromotionData ==
    << Single("x", Atom("a")),
       Dict([k \in {"x", "y"} |-> IF k = "x" THEN Atom("a") ELSE Atom("b")]),
       Single("x", Atom("a")) >>

\* the next ingest of the scenario runs set_current_data
PromotionIngest(t1, new_data) ==
    /\ Len(snaps) < Len(PromotionAges(t1))
    /\ snaps # <<>> => t1 = snaps[1].age
    /\ Len(snaps) < Len(PromotionData)
          => new_data = PromotionData[Len(snaps) + 1]
    /\ LET new_age == PromotionAges(t1)[Len(snaps) + 1]
       IN  /\ state' = set_current_data(state, new_age, new_data)
           /\ snaps' = Append(snaps, [age |-> new_age, data |-> new_data])
    /\ reply' = NoReply
    /\ UNCHANGED <<algVars, dbVars, wkVars, srvVars, ioVars, scrVars, v2Vars>>

---------------------------------------------------------------------------
(* The algebra applied to generated inputs.                                *)

\* apply(a, compute(a, b))
ApplyComputed ==
    /\ step = "init"
    /\ res' = apply_diff(ta, compute_diff(ta, tb))
    /\ step' = "applied"
    /\ UNCHANGED <<ta, tb, tc, mgrVars, dbVars, wkVars, srvVars, ioVars,
                   scrVars, v2Vars>>

\* apply(a, merge(compute(a, b), compute(b, c))), as in TestDiff.test_abc
ApplyMerged ==
    /\ step = "init"
    /\ res' = apply_diff(ta, merge_diffs(compute_diff(ta, tb),
                                         compute_diff(tb, tc)))
    /\ step' = "merged"
    /\ UNCHANGED <<ta, tb, tc, mgrVars, dbVars, wkVars, srvVars, ioVars,
                   scrVars, v2Vars>>

\* apply(b, merge(compute(a, b), compute(b, c))), the c_from_b of
\* TestDiff.test_abc
ApplyMergedToMiddle ==
    /\ step = "init"
    /\ res' = apply_diff(tb, merge_diffs(compute_diff(ta, tb),
                                         compute_diff(tb, tc)))
    /\ step' = "middle"
    /\ UNCHANGED <<ta, tb, tc, mgrVars, dbVars, wkVars, srvVars, ioVars,
                   scrVars, v2Vars>>

\* merge(merge(x, y), z) and merge(x, merge(y, z))
MergeNested ==
    /\ step = "init"
    /\ res' = [left |-> merge_diffs(merge_diffs(ta, tb), tc),
               right |-> merge_diffs(ta, merge_diffs(tb, tc))]
    /\ step' = "nested"
    /\ UNCHANGED <<ta, tb, tc, mgrVars, dbVars, wkVars, srvVars, ioVars,
                   scrVars, v2Vars>>

\* apply(a, {})
ApplyEmpty ==
    /\ step = "init"
    /\ res' = apply_diff(ta, EmptyDict)
    /\ step' = "identity"
    /\ UNCHANGED <<ta, tb, tc, mgrVars, dbVars, wkVars, srvVars, ioVars,
                   scrVars, v2Vars>>

---------------------------------------------------------------------------
(* hyperschedule/scrapers/cu_boulder: main() hands the generator tasks()   *)
(* to process_parallel, whose threads take the next task under a lock and  *)
(* call it outside the lock. Every task is a closure over the generator's  *)
(* loop variable my_crn, which it reads when it is called.                 *)

\* the list `crns` that tasks() iterates over
crns == SubSeq(<<"c1", "c2", "c3", "c4", "c5">>, 1, NumCRNs)
Threads == 1..Concurrency

\* a thread that has not run target() yet
NewThread == [pc |-> "target", task |-> 0, crn |-> UnsetStr]

\* main() up to the call of process_parallel, which has started
\* `concurrency` threads: the generator has not run, nothing is fetched
ScraperInit ==
    /\ my_crn = UnsetStr
    /\ yielded = 0
    /\ threads = [t \in Threads |-> NewThread]
    /\ parallel = [num_done |-> 0, error |-> FALSE, expired |-> FALSE,
                   returned |-> "running"]
    /\ fetched = [c \in {crns[n] : n \in 1..NumCRNs} |-> 0]
    /\ completed = {}

\* target() up to the task it takes: past end_time it counts itself done;
\* else next(tasks) under the lock resumes the generator, which binds
\* my_crn to the next CRN and yields a new task, or is exhausted
TargetNext(t, late) ==
    /\ threads[t].pc = "target"
    /\ IF late
       THEN /\ parallel' = [parallel EXCEPT !.num_done = @ + 1,
                                            !.expired = TRUE]
            /\ threads' = [threads EXCEPT ![t].pc = "done"]
            /\ UNCHANGED <<my_crn, yielded>>
       ELSE IF yielded < Len(crns)
       THEN /\ yielded' = yielded + 1
            /\ my_crn' = crns[yielded + 1]
            /\ threads' = [threads EXCEPT ![t].pc = "task",
                                          ![t].task = yielded + 1]
            /\ UNCHANGED parallel
       ELSE /\ parallel' = [parallel EXCEPT !.num_done = @ + 1]
            /\ threads' = [threads EXCEPT ![t].pc = "done"]
            /\ UNCHANGED <<my_crn, yielded>>
    /\ UNCHANGED <<fetched, completed, algVars, mgrVars, dbVars, wkVars,
                   srvVars, ioVars, v2Vars>>

\* task() is called, outside the lock: `crn = my_crn` reads the variable
\* of the generator's frame
TaskCopy(t) ==
    /\ threads[t].pc = "task"
    /\ threads' = [threads EXCEPT ![t].pc = "fetch", ![t].crn = my_crn]
    /\ UNCHANGED <<my_crn, yielded, parallel, fetched, completed, algVars,
                   mgrVars, dbVars, wkVars, srvVars, ioVars, v2Vars>>

\* task() requests the course and stores it, or raises (ignore_errors is
\* off), which sets `error`; target() starts a thread that runs target()
\* again unless `error` is set
TaskFetch(t, ok) ==
    /\ threads[t].pc = "fetch"
    /\ fetched' = [fetched EXCEPT ![threads[t].crn] = @ + 1]
    /\ completed' = IF ok THEN completed \cup {threads[t].crn}
                    ELSE completed
    /\ parallel' = IF ok THEN parallel ELSE [parallel EXCEPT !.error = TRUE]
    /\ threads' = [threads EXCEPT ![t] =
                      IF parallel'.error THEN [@ EXCEPT !.pc = "done"]
                      ELSE NewThread]
    /\ UNCHANGED <<my_crn, yielded, algVars, mgrVars, dbVars, wkVars,
                   srvVars, ioVars, v2Vars>>

\* the loop of process_parallel sees `error or num_done >= concurrency`
\* and returns `not error`
ParallelReturn ==
    /\ parallel.returned = "running"
    /\ parallel.error \/ parallel.num_done >= Concurrency
    /\ parallel' = [parallel EXCEPT !.returned =
                       IF parallel.error THEN PyFalse ELSE PyTrue]
    /\ UNCHANGED <<my_crn, yielded, threads, fetched, completed, algVars,
                   mgrVars, dbVars, wkVars, srvVars, ioVars, v2Vars>>

---------------------------------------------------------------------------
(* server.py, the legacy v2 server: course_data holds the current course   *)
(* list, its index by course key, and the last MAX_UPDATES_SAVED updates;  *)
(* /api/v2/courses-since/<since> answers from them under thread_lock.      *)

\* None and a value that is not None
None == <<>>
Some(x) == <<x>>

\* COURSE_ATTRS and COURSE_INDEX_ATTRS with the five attributes of the
\* index key as one, "key", and two of the others
COURSE_ATTRS == {"key", "courseName", "openSeats"}
COURSE_INDEX_ATTRS == {"key"}

\* a course as process_course returns it
Course(k, name, seats) ==
    [key |-> k, courseName |-> name, openSeats |-> seats]

\* the course lists get_latest_course_list returns, sorted by key: no
\* course, one course whose name and seats change, a second course
V2CourseLists ==
    {<<>>,
     <<Course("k1", "a", 0)>>,
     <<Course("k1", "b", 0)>>,
     <<Course("k1", "b", 1)>>,
     <<Course("k1", "a", 0), Course("k2", "a", 0)>>,
     <<Course("k2", "a", 0)>>}

\* INITIAL_COURSE_DATA
INITIAL_COURSE_DATA ==
    [current |-> None, index |-> None, initial_timestamp |-> None,
     updates |-> <<>>, timestamp |-> None]

\* course_data after the module is loaded without a cache file; nothing
\* applied and no request answered yet
ServerInit ==
    /\ course_data = INITIAL_COURSE_DATA
    /\ applied = <<>>
    /\ served = [status |-> 0]

\* course_to_index_key
course_to_index_key(course) == course.key

\* course_from_index_key
course_from_index_key(key) == [a \in COURSE_INDEX_ATTRS |-> key]

\* index_courses, for a list that has no two courses with one key
index_courses(courses) ==
    [k \in {course_to_index_key(courses[n]) : n \in 1..Len(courses)} |->
        CHOOSE c \in {courses[n] : n \in 1..Len(courses)} :
            course_to_index_key(c) = k]

\* compute_update
compute_update(old_courses_index, new_courses_index) ==
    LET old_courses_keys == DOMAIN old_courses_index
        new_courses_keys == DOMAIN new_courses_index
        attrs(key) == {attr \in COURSE_ATTRS :
                          old_courses_index[key][attr]
                              # new_courses_index[key][attr]}
        modified_keys == {key \in new_courses_keys \cap old_courses_keys :
                             attrs(key) # {}}
    IN  [added |-> new_courses_keys \ old_courses_keys,
         removed |-> old_courses_keys \ new_courses_keys,
         modified |-> [key \in modified_keys |-> attrs(key)]]

\* the body of the loop of compute_diff for one update later than `since`:
\* the keys of one update's modified, added and removed are disjoint, so
\* each of the three loops acts on all its keys at once; a failed assert
\* is kept in `failed`
diff_step(acc, update) ==
    LET m1 == [key \in DOMAIN acc.modified \cup DOMAIN update.modified |->
                  (IF key \in DOMAIN acc.modified
                   THEN acc.modified[key] ELSE {})
                  \cup (IF key \in DOMAIN update.modified
                        THEN update.modified[key] ELSE {})]
        f1 == DOMAIN update.modified \cap acc.removed # {}
        back == update.added \cap acc.removed
        f2 == update.added \cap (DOMAIN m1 \cup acc.added) # {}
        r2 == acc.removed \ back
        m2 == [key \in DOMAIN m1 \cup back |->
                  IF key \in back THEN COURSE_ATTRS ELSE m1[key]]
        a2 == acc.added \cup (update.added \ back)
        f3 == update.removed \cap r2 # {}
        m3 == [key \in DOMAIN m2 \ update.removed |-> m2[key]]
        a3 == a2 \ update.removed
        r3 == r2 \cup (update.removed \ a2)
    IN  [added |-> a3, removed |-> r3, modified |-> m3,
         failed |-> acc.failed \/ f1 \/ f2 \/ f3]

RECURSIVE diff_loop(_, _, _)
\* the loop of compute_diff over course_data["updates"]
diff_loop(updates, since, acc) ==
    IF updates = <<>> THEN acc
    ELSE diff_loop(Tail(updates), since,
                   IF Head(updates).timestamp > since
                   THEN diff_step(acc, Head(updates).update)
                   ELSE acc)

\* compute_diff of server.py
server_compute_diff(data, since) ==
    LET acc == diff_loop(data.updates, since,
                         [added |-> {}, removed |-> {},
                          modified |-> [key \in {} |-> {}],
                          failed |-> FALSE])
        index == data.index[1]
    IN  [failed |-> acc.failed \/ ~(acc.added \cup DOMAIN acc.modified
                                        \subseteq DOMAIN index),
         added |-> {index[key] : key \in acc.added \cap DOMAIN index},
         removed |-> {course_from_index_key(key) : key \in acc.removed},
         modified |-> {[attr \in COURSE_INDEX_ATTRS \cup acc.modified[key]
                           |-> index[key][attr]] :
                          key \in DOMAIN acc.modified \cap DOMAIN index}]

\* `updates[:] = updates[len(updates) - MAX_UPDATES_SAVED:]` when the list
\* is longer than MAX_UPDATES_SAVED
truncate(updates) ==
    IF Len(updates) > MAX_UPDATES_SAVED
    THEN SubSeq(updates, Len(updates) - MAX_UPDATES_SAVED + 1, Len(updates))
    ELSE updates

\* update_course_data
update_course_data(data, timestamp, courses, index) ==
    LET last_index == data.index
        d1 == IF last_index # None
              THEN [data EXCEPT !.updates = truncate(Append(@,
                        [timestamp |-> timestamp,
                         update |-> compute_update(last_index[1], index)]))]
              ELSE [data EXCEPT !.initial_timestamp = Some(timestamp)]
    IN  [d1 EXCEPT !.current = Some(courses), !.index = Some(index),
                   !.timestamp = Some(timestamp)]

\* the clock of the server at the last fetch, counted in the periods of
\* run_fetch_task
V2Now == IF course_data.timestamp = None THEN 0 ELSE course_data.timestamp[1]

\* fetch_and_update_course_data, one period after the last fetch: the
\* timestamp is taken, the list is fetched and the data updated; `applied`
\* records the index that became current at that timestamp
V2Update(courses) ==
    /\ Len(applied) < MaxFetches
    /\ LET timestamp == V2Now + 1
           index == index_courses(courses)
       IN  /\ course_data' =
                 update_course_data(course_data, timestamp, courses, index)
           /\ applied' = Append(applied,
                                [timestamp |-> timestamp, index |-> index])
    /\ UNCHANGED <<served, algVars, mgrVars, dbVars, wkVars, srvVars,
                   ioVars, scrVars>>

\* do_GET for /api/v2/courses-since/<since>
V2CoursesSince(since) ==
    /\ served' =
          IF course_data.current # None /\ course_data.current[1] # <<>>
             /\ since >= course_data.initial_timestamp[1]
          THEN LET diff == server_compute_diff(course_data, since)
               IN  IF diff.failed
                   THEN [status |-> 500, since |-> since]
                   ELSE [status |-> 200, since |-> since,
                         incremental |-> TRUE,
                         diff |-> [added |-> diff.added,
                                   removed |-> diff.removed,
                                   modified |-> diff.modified],
                         timestamp |-> course_data.timestamp[1]]
          ELSE IF course_data.current # None /\ course_data.current[1] # <<>>
          THEN [status |-> 200, since |-> since, incremental |-> FALSE,
                courses |-> course_data.current[1],
                timestamp |-> course_data.timestamp[1]]
          ELSE [status |-> 503, since |-> since]
    /\ UNCHANGED <<course_data, applied, algVars, mgrVars, dbVars, wkVars,
                   srvVars, ioVars, scrVars>>

---------------------------------------------------------------------------
(* hyperschedule/worker.py: its own compute_diff, apply_diff, merge_diffs  *)
(* and DiffManager, run side by side with those of hyperschedule/api.      *)

RECURSIVE worker_compute_diff(_, _)
RECURSIVE worker_apply_diff(_, _)
RECURSIVE worker_merge_diffs(_, _)

\* worker.compute_diff(old, new): the items of new that old lacks or holds
\* differently, then "$delete" for the keys of old that new lacks
worker_compute_diff(old, new) ==
    IF ~isdict(old) \/ ~isdict(new) THEN new
    ELSE LET added == DOMAIN new.kids \ DOMAIN old.kids
             differ == {key \in DOMAIN new.kids \cap DOMAIN old.kids :
                           old.kids[key] # new.kids[key]}
             gone == {key \in DOMAIN old.kids : key \notin DOMAIN new.kids}
         IN  Dict([key \in added \cup differ \cup gone |->
                    IF key \in added THEN new.kids[key]
                    ELSE IF key \in differ
                    THEN worker_compute_diff(old.kids[key], new.kids[key])
                    ELSE Delete])

\* worker.apply_diff(obj, diff): a copy of obj, each item of diff popped
\* from it, put into it or applied to the value it has
worker_apply_diff(obj, diff) ==
    IF ~isdict(obj) \/ ~isdict(diff) THEN diff
    ELSE LET popped == {key \in DOMAIN diff.kids : diff.kids[key] = Delete}
             put == DOMAIN diff.kids \ popped
         IN  Dict([key \in (DOMAIN obj.kids \ popped) \cup put |->
                    IF key \notin put THEN obj.kids[key]
                    ELSE IF key \notin DOMAIN obj.kids THEN diff.kids[key]
                    ELSE worker_apply_diff(obj.kids[key], diff.kids[key])])

\* merge_diffs whose loop assigns `diff[key] = val` without merging
worker_merge_diffs_overwrite(d1, d2) ==
    IF ~isdict(d1) \/ ~isdict(d2) THEN d2
    ELSE Dict([key \in DOMAIN d1.kids \cup DOMAIN d2.kids |->
                    IF key \in DOMAIN d2.kids THEN d2.kids[key]
                    ELSE d1.kids[key]])

\* worker.merge_diffs(d1, d2): d1.copy(), into which each item of d2 is
\* merged when the key is there and put when it is not
worker_merge_diffs(d1, d2) ==
    IF ~isdict(d1) \/ ~isdict(d2) THEN d2
    ELSE Dict([key \in DOMAIN d1.kids \cup DOMAIN d2.kids |->
                    IF key \notin DOMAIN d2.kids THEN d1.kids[key]
                    ELSE IF key \in DOMAIN d1.kids
                    THEN worker_merge_diffs(d1.kids[key], d2.kids[key])
                    ELSE d2.kids[key]])

\* worker.DiffManager.set_current_data: the new value of self.state
worker_set_current_data(st, new_age, new_data) ==
    LET pruned == IF st.diffs # <<>>
                  THEN prune(st.diffs, Len(st.diffs), new_age, 1)
                  ELSE st.diffs
        new_diff == worker_compute_diff(st.data, new_data)
        pushed == Append(pruned, [age |-> st.age, diff |-> EmptyDict])
    IN  [age |-> new_age, data |-> new_data,
         diffs |-> IF st.data = Unset THEN pruned
                   ELSE [n \in 1..Len(pushed) |->
                           [age |-> pushed[n].age,
                            diff |-> worker_merge_diffs(pushed[n].diff,
                                                        new_diff)]]]

\* worker.DiffManager.get_diff_to_present(since): it has no case for
\* since=Unset, which `since >= current_age` answers with TypeError
worker_get_diff_to_present(st, since) ==
    LET reached == {n \in 1..Len(st.diffs) : since >= st.diffs[n].age}
        last == CHOOSE n \in reached : \A m \in reached : m <= n
    IN  IF st.data = Unset
        THEN [diff |-> Unset, full |-> UnsetFull, age |-> UnsetAge]
        ELSE IF since = UnsetAge
        THEN [diff |-> Unset, full |-> "TypeError", age |-> UnsetAge]
        ELSE IF since >= st.age
        THEN [diff |-> EmptyDict, full |-> PyFalse, age |-> st.age]
        ELSE IF reached # {}
        THEN [diff |-> st.diffs[last].diff, full |-> PyFalse, age |-> st.age]
        ELSE [diff |-> st.data, full |-> PyTrue, age |-> st.age]

\* the three functions of both modules applied to the same two objects
BothCompute ==
    /\ step = "init"
    /\ res' = [api |-> compute_diff(ta, tb),
               worker |-> worker_compute_diff(ta, tb)]
    /\ step' = "compute"
    /\ UNCHANGED <<ta, tb, tc, mgrVars, dbVars, wkVars, srvVars, ioVars,
                   scrVars, v2Vars>>

BothApply ==
    /\ step = "init"
    /\ res' = [api |-> apply_diff(ta, tb),
               worker |-> worker_apply_diff(ta, tb)]
    /\ step' = "apply"
    /\ UNCHANGED <<ta, tb, tc, mgrVars, dbVars, wkVars, srvVars, ioVars,
                   scrVars, v2Vars>>

BothMerge ==
    /\ step = "init"
    /\ res' = [api |-> merge_diffs(ta, tb),
               worker |-> worker_merge_diffs(ta, tb)]
    /\ step' = "merge"
    /\ UNCHANGED <<ta, tb, tc, mgrVars, dbVars, wkVars, srvVars, ioVars,
                   scrVars, v2Vars>>

\* set_current_data(new_age, new_data) on a DiffManager of each module
BothSetCurrent(new_age, new_data) ==
    /\ step = "off"
    /\ Len(snaps) < MaxCalls
    /\ state' = set_current_data(state, new_age, new_data)
    /\ worker_state' =
          worker_set_current_data(value_of(worker_state), new_age, new_data)
             @@ [shared |-> FALSE]
    /\ snaps' = Append(snaps, [age |-> new_age, data |-> new_data])
    /\ reply' = NoReply
    /\ res' = Unset
    /\ UNCHANGED <<ta, tb, tc, step, dbVars, srvVars, ioVars, list0, ipc,
                   iloc, vpc, vloc, worker_installed,
                   scrVars, v2Vars>>

\* get_diff_to_present(since), since an int, on both
BothGetDiff(since) ==
    /\ step = "off"
    /\ reply' = [called |-> TRUE, since |-> since]
                  @@ get_diff_to_present(state, since)
    /\ res' = worker_get_diff_to_present(value_of(worker_state), since)
    /\ UNCHANGED <<ta, tb, tc, step, state, snaps, dbVars, wkVars, srvVars,
                   ioVars, scrVars, v2Vars>>

---------------------------------------------------------------------------
(* Specifications.                                                         *)

\* no algebra computation is set up
AlgOff ==
    /\ ta = Unset /\ tb = Unset /\ tc = Unset
    /\ res = Unset
    /\ step = "off"

\* DiffManager()
MgrInit ==
    /\ state = EmptyState
    /\ snaps = <<>>
    /\ reply = NoReply

\* Database(), no request in progress
DbInit ==
    /\ clock = 1
    /\ lock = "free"
    /\ diff_managers = <<>>
    /\ terms = <<>>
    /\ most_recent_terms = <<>>
    /\ wpc = [w \in Writers |-> "idle"]
    /\ wloc = [w \in Writers |-> IdleWriter]
    /\ rpc = [r \in Readers |-> "idle"]
    /\ rloc = [r \in Readers |-> IdleReader]
    /\ held = [c \in Clients |-> NothingHeld]
    /\ resp = [c \in Clients |-> NoResp]
    /\ disordered = {}
    /\ versions = {}
    /\ posts = 0
    /\ reads = 0

\* the process starts with the config vars e: no POST answered, no rate
\* limiter used (notify.webhook.timestamp and the last_timestamp of each
\* rate_limited function are Unset), nothing sent
IoInit(e) ==
    /\ env = e
    /\ wresp = [w \in Writers |-> NoPostReply]
    /\ stamps = [notify |-> UnsetAge, webhook |-> UnsetAge,
                 s3_write |-> UnsetAge]
    /\ io = <<>>

\* DiffWorker(compute_data, repeat_delay, initial_data) and start():
\* the manager holds initial_data when it is given
WorkerInit(initial_data) ==
    /\ worker_state = [age |-> IF initial_data = Unset THEN UnsetAge ELSE 1,
                       data |-> initial_data, diffs |-> <<>>,
                       shared |-> TRUE]
    /\ list0 = <<>>
    /\ worker_installed =
          IF initial_data = Unset THEN {}
          ELSE {[age |-> 1, data |-> initial_data, diffs |-> <<>>]}
    /\ ipc = [i \in Iterations |-> IF i = 1 THEN "get" ELSE "none"]
    /\ iloc = [i \in Iterations |-> IdleIteration]
    /\ vpc = [c \in V3Readers |-> "idle"]
    /\ vloc = [c \in V3Readers |-> IdleV3]

\* one DiffManager and its callers
Init ==
    /\ MgrInit /\ AlgOff /\ DbInit /\ ScraperInit /\ ServerInit
    /\ IoInit(EnvOff) /\ WorkerInit(Unset)

Next ==
    \/ \E new_age \in Ages, new_data \in SampleTrees :
          SetCurrent(new_age, new_data)
    \/ \E since \in {UnsetAge} \cup (0..MaxAge + 1) : GetDiff(since)

Spec == Init /\ [][Next]_vars

\* the diff of two generated objects, applied to the first
InitDiff ==
    /\ ta \in Trees2
    /\ tb \in Trees2
    /\ tc = Unset
    /\ res = Unset
    /\ step = "init"
    /\ MgrInit
    /\ DbInit /\ ScraperInit /\ ServerInit
    /\ IoInit(EnvOff) /\ WorkerInit(Unset)

\* the merged diff of three generated objects, applied to the first
InitMerge ==
    /\ ta \in TreesSmall
    /\ tb \in TreesSmall
    /\ tc \in TreesSmall
    /\ res = Unset
    /\ step = "init"
    /\ MgrInit
    /\ DbInit /\ ScraperInit /\ ServerInit
    /\ IoInit(EnvOff) /\ WorkerInit(Unset)

\* three generated diffs, merged both ways, and the first with the empty
\* diff applied
InitLaws ==
    /\ ta \in DiffsSmall
    /\ tb \in DiffsSmall
    /\ tc \in DiffsSmall
    /\ res = Unset
    /\ step = "init"
    /\ MgrInit
    /\ DbInit /\ ScraperInit /\ ServerInit
    /\ IoInit(EnvOff) /\ WorkerInit(Unset)

NextLaws == MergeNested \/ ApplyEmpty

SpecLaws == InitLaws /\ [][NextLaws]_vars
SpecDiff == InitDiff /\ [][ApplyComputed]_vars
NextMerge == ApplyMerged \/ ApplyMergedToMiddle
SpecMerge == InitMerge /\ [][NextMerge]_vars

\* one DiffManager whose callers pass increasing ages
NextPrune ==
    \/ \E new_age \in 1..MaxPruneAge, new_data \in CourseMaps :
          SetNewer(new_age, new_data)
    \/ \E since \in {UnsetAge} \cup (0..MaxPruneAge + 1) : GetDiff(since)

SpecPrune == Init /\ [][NextPrune]_vars

\* one DiffManager given the ingests of the promotion scenario and asked
\* for the diff since one of its first three ages
NextPromotion ==
    \/ \E t1 \in Ages,
          new_data \in IF Len(snaps) < Len(PromotionData)
                       THEN {PromotionData[Len(snaps) + 1]}
                       ELSE CourseMaps :
          PromotionIngest(t1, new_data)
    \/ \E i \in 1..Len(snaps) :
          /\ i <= Len(PromotionData)
          /\ GetDiff(snaps[i].age)

SpecPromotion == Init /\ [][NextPromotion]_vars

\* the Database with a catalog of several terms: one POST handler at a
\* time for the scraper "s", and one GET request with any query parameters
NextTerms ==
    \/ Tick
    \/ \E desc \in AllTermDescs, courses \in CourseMaps :
          PostBegin("w1", "s", desc, courses)
    \/ PostAcquire("w1")
    \/ PostSetEnter("w1")
    \/ PostInstall("w1")
    \/ PostTerms("w1")
    \/ \E scraper \in AllScrapers, since \in {UnsetAge, 0, MaxClock},
          current_term \in {UnsetStr} \cup AllTermCodes,
          requested_term \in {UnsetStr} \cup AllTermCodes :
          /\ reads = 0
          /\ GetQuery("r1", scraper, since, current_term, requested_term)
    \/ GetAcquire("r1")
    \/ GetRead("r1")
    \/ GetReturn("r1")

SpecTerms == Init /\ [][NextTerms]_vars

\* the two ingest paths with input that may hold the sentinel: POST
\* /api/v4/courses and the refresh worker running the scraper
NextIngest ==
    \/ \E desc \in TermDescs, courses \in PostedCourses :
          PostBegin("w1", "s", desc, courses)
    \/ PostAcquire("w1")
    \/ PostSetEnter("w1")
    \/ PostInstall("w1")
    \/ PostTerms("w1")
    \/ \E i \in Iterations : IterGet(i)
    \/ \E i \in Iterations, output \in ScraperOutputs :
          IterCompute(i, compute_data(output))
    \/ \E i \in Iterations : IterSetEnter(i)
    \/ \E i \in Iterations : IterAppend(i)
    \/ \E i \in Iterations : IterInstall(i)
    \/ \E i \in Iterations : IterSchedule(i)
    \/ \E i \in Iterations : TimerFires(i)

SpecIngest == Init /\ [][NextIngest]_vars

\* POST /api/v4/courses with any JSON body, one request at a time, with
\* the success webhook enabled or not
InitPost ==
    /\ MgrInit /\ AlgOff
    /\ DbInit /\ ScraperInit /\ ServerInit /\ WorkerInit(Unset)
    /\ \E snitch \in BOOLEAN : IoInit([EnvOff EXCEPT !.snitch = snitch])

NextPost ==
    \/ \E t \in Times : TimePasses(t)
    \/ \E data \in Bodies, desc \in TermDescs, courses \in CourseMaps :
          PostRequest("w1", data, desc, courses)
    \/ PostAcquire("w1")
    \/ PostSetEnter("w1")
    \/ PostInstall("w1")
    \/ PostTerms("w1")
    \/ \E ok \in BOOLEAN : PostNotify("w1", ok)

SpecPost == InitPost /\ [][NextPost]_vars

\* the refresh worker, cycle by cycle, under any configuration
InitCycle ==
    /\ MgrInit /\ AlgOff
    /\ DbInit /\ ScraperInit /\ ServerInit /\ WorkerInit(Unset)
    /\ \E e \in Envs : IoInit(e)

CycleStep(i) ==
    \/ IterGet(i)
    \/ \E started \in BOOLEAN : CyclePopen(i, started)
    \/ \E run \in ScrapeRuns : CycleScrape(i, run)
    \/ CycleKill(i)
    \/ \E ok \in BOOLEAN : CycleWebhook(i, ok)
    \/ \E ok \in BOOLEAN : CycleCache(i, ok)
    \/ \E ok \in BOOLEAN : CycleS3Write(i, ok)
    \/ \E syllabus_info \in SUBSET SyllabusCodes :
          CycleMerge(i, syllabus_info)
    \/ IterSetEnter(i)
    \/ IterAppend(i)
    \/ IterInstall(i)
    \/ IterSchedule(i)
    \/ TimerFires(i)

\* time passes while the scraper runs and while the timer waits
NextCycle ==
    \/ \E t \in Times :
          /\ \E i \in Iterations : ipc[i] \in {"communicate", "timer"}
          /\ TimePasses(t)
    \/ \E i \in Iterations : CycleStep(i)

SpecCycle == InitCycle /\ [][NextCycle]_vars

\* the code of both modules given the same inputs: two generated objects
\* for the three functions, or one series of calls for the two managers
InitBoth ==
    /\ \/ /\ ta \in DiffsSmall \cup {Unset}
          /\ tb \in DiffsSmall \cup {Unset}
          /\ step = "init"
       \/ /\ ta = Unset /\ tb = Unset
          /\ step = "off"
    /\ tc = Unset
    /\ res = Unset
    /\ MgrInit
    /\ DbInit /\ ScraperInit /\ ServerInit
    /\ IoInit(EnvOff) /\ WorkerInit(Unset)

NextBoth ==
    \/ BothCompute
    \/ BothApply
    \/ BothMerge
    \/ \E new_age \in Ages, new_data \in SampleTrees :
          BothSetCurrent(new_age, new_data)
    \/ \E since \in 0..(MaxAge + 1) : BothGetDiff(since)

SpecBoth == InitBoth /\ [][NextBoth]_vars

\* the threads of process_parallel running the tasks of cu_boulder main()
NextScraper ==
    \/ \E t \in Threads, late \in BOOLEAN : TargetNext(t, late)
    \/ \E t \in Threads : TaskCopy(t)
    \/ \E t \in Threads, ok \in BOOLEAN : TaskFetch(t, ok)
    \/ ParallelReturn

SpecScraper == Init /\ [][NextScraper]_vars

\* the legacy v2 server fetching course lists and answering courses-since
NextLegacy ==
    \/ \E courses \in V2CourseLists : V2Update(courses)
    \/ \E since \in 0..(MaxFetches + 1) : V2CoursesSince(since)

SpecLegacy == Init /\ [][NextLegacy]_vars

\* the Database given a series of ingests by one scraper, whose terms
\* include one with a str as the first item of its sort key
MaxIngests == 3
CatalogDescs ==
    AllTermDescs \cup
    { [termCode |-> "SP2025", termName |-> "Spring 2025",
       termSortKey |-> <<-1>>] }

\* view_api_v4_post with a body that validate.check accepts
IngestBegin(w, scraper, desc, courses) ==
    /\ wpc[w] = "idle"
    /\ posts < MaxIngests
    /\ begin_post(w, scraper, desc, courses)
    /\ UNCHANGED <<clock, lock, diff_managers, terms, most_recent_terms,
                   rpc, rloc, held, resp, disordered, versions, reads,
                   wkVars, algVars, mgrVars, ioVars,
                   scrVars, v2Vars>>

NextCatalog ==
    \/ \E desc \in CatalogDescs : IngestBegin("w1", "s", desc, EmptyDict)
    \/ PostAcquire("w1")
    \/ PostSetEnter("w1")
    \/ PostInstall("w1")
    \/ PostTerms("w1")

SpecCatalog == Init /\ [][NextCatalog]_vars

\* the refresh worker under the default configuration but for the local
\* cache, which is enabled or not; the thread of an iteration keeps
\* running and a started timer expires
InitRefresh ==
    /\ MgrInit /\ AlgOff
    /\ DbInit /\ ScraperInit /\ ServerInit /\ WorkerInit(Unset)
    /\ \E cache \in BOOLEAN : IoInit([EnvOff EXCEPT !.cache = cache])

SpecRefresh ==
    /\ InitRefresh /\ [][NextCycle]_vars
    /\ \A i \in Iterations : WF_vars(CycleStep(i))

\* the Database shared by concurrent POST and GET handlers, and the
\* refresh worker read by /api/v3/courses handlers
InitDb ==
    /\ DbInit /\ ScraperInit /\ ServerInit /\ IoInit(EnvOff)
    /\ \E initial_data \in {Unset, EmptyDict} : WorkerInit(initial_data)
    /\ MgrInit /\ AlgOff

NextDb ==
    \/ Tick
    \/ \E w \in Writers, scraper \in Scrapers, desc \in TermDescs,
          courses \in CourseMaps : PostBegin(w, scraper, desc, courses)
    \/ \E w \in Writers : PostAcquire(w)
    \/ \E w \in Writers : PostSetEnter(w)
    \/ \E w \in Writers : PostInstall(w)
    \/ \E w \in Writers : PostTerms(w)
    \/ \E r \in Readers, scraper \in Scrapers, incremental \in BOOLEAN,
          requested_term \in {UnsetStr} \cup TermCodes :
          GetBegin(r, scraper, incremental, requested_term)
    \/ \E r \in Readers : GetAcquire(r)
    \/ \E r \in Readers : GetRead(r)
    \/ \E r \in Readers : GetReturn(r)
    \/ \E i \in Iterations : IterGet(i)
    \/ \E i \in Iterations, data \in {Unset} \cup CourseMaps :
          IterCompute(i, data)
    \/ \E i \in Iterations : IterSetEnter(i)
    \/ \E i \in Iterations : IterAppend(i)
    \/ \E i \in Iterations : IterInstall(i)
    \/ \E i \in Iterations : IterSchedule(i)
    \/ \E i \in Iterations : TimerFires(i)
    \/ \E c \in V3Readers : V3GetCurrent(c)
    \/ \E c \in V3Readers : V3Read(c)
    \/ \E c \in V3Readers : V3Return(c)

SpecDb == InitDb /\ [][NextDb]_vars

---------------------------------------------------------------------------
(* Properties of one DiffManager (Spec).                                   *)

\* the ages of the calls made so far are strictly increasing
StrictAges ==
    \A i, j \in 1..Len(snaps) : i < j => snaps[i].age < snaps[j].age
\* each call made so far had new_age >= current_age
NonDecreasingAges ==
    \A i, j \in 1..Len(snaps) : i < j => snaps[i].age <= snaps[j].age

\* the data that was current at age t: that of the last call with age <= t
DataAt(t) ==
    LET upto == {i \in 1..Len(snaps) : snaps[i].age <= t}
        last == CHOOSE i \in upto : \A j \in upto : j <= i
    IN  snaps[last].data

\* C1: with strictly increasing ages and oldest_retained_age <= since <
\* current_age, get_diff_to_present(since) is not full and its diff takes
\* the data that was current at `since` to the current data
C1_DiffSinceReachesPresent ==
    (/\ reply.called /\ reply.since # UnsetAge
     /\ StrictAges
     /\ state.diffs # <<>>
     /\ state.diffs[1].age <= reply.since
     /\ reply.since < state.age)
    => /\ reply.full = PyFalse
       /\ apply_diff(DataAt(reply.since), reply.diff) = state.data

\* C2: with strictly increasing ages, every history entry's diff takes the
\* snapshot that was current at its age to the current data
C2_HistoryDiffsToPresent ==
    StrictAges =>
        \A i \in 1..Len(state.diffs) :
            apply_diff(DataAt(state.diffs[i].age), state.diffs[i].diff)
                = state.data

\* C9: set_current_data with new_age < current_age on a manager that has a
\* snapshot leaves the (age, data, history) triple unchanged
C9_OlderAgeRejected ==
    [][\A new_age \in Ages, new_data \in SampleTrees :
          (/\ SetCurrent(new_age, new_data)
           /\ state.data # Unset
           /\ new_age < state.age) => state' = state]_vars

\* C10: when every call had new_age >= current_age, the history ages are
\* strictly ascending and all below current_age, and the history is empty
\* while no snapshot is installed
C10_HistoryAgesAscendBelowCurrent ==
    NonDecreasingAges =>
        /\ \A i, j \in 1..Len(state.diffs) :
              i < j => state.diffs[i].age < state.diffs[j].age
        /\ \A i \in 1..Len(state.diffs) : state.diffs[i].age < state.age
        /\ (state.data = Unset => state.diffs = <<>>)

---------------------------------------------------------------------------
(* Properties of the pruned history (SpecPrune).                           *)

\* the least k with 2^k >= n
CeilLog2(n) == CHOOSE k \in 0..n : 2^k >= n /\ \A j \in 0..(k - 1) : 2^j < n

\* the age of the oldest entry of a non-empty history
oldest_retained_age(st) ==
    CHOOSE a \in {st.diffs[i].age : i \in 1..Len(st.diffs)} :
        \A i \in 1..Len(st.diffs) : a <= st.diffs[i].age

\* C11: after calls with strictly increasing ages a non-empty history has
\* at most ceil(log2(current_age - oldest_retained_age + 1)) + 1 entries
C11_HistoryLogBound ==
    (StrictAges /\ state.diffs # <<>>)
    => Len(state.diffs)
          <= CeilLog2(state.age - oldest_retained_age(state) + 1) + 1

\* entries were pruned and the history is as long as the bound allows
C11_Witness ==
    /\ StrictAges
    /\ Len(state.diffs) = 4
    /\ \E i \in 1..Len(snaps) :
          /\ snaps[i].age < state.age
          /\ \A j \in 1..Len(state.diffs) : state.diffs[j].age # snaps[i].age
    /\ Len(state.diffs)
          = CeilLog2(state.age - oldest_retained_age(state) + 1) + 1

\* C12: with a snapshot and strictly increasing ages, a `since` older than
\* every retained entry (or than current_age when the history is empty) is
\* answered with the full current data and the current age
C12_OlderThanHistoryIsFull ==
    (/\ reply.called /\ reply.since # UnsetAge
     /\ StrictAges
     /\ state.data # Unset
     /\ IF state.diffs = <<>> THEN reply.since < state.age
        ELSE reply.since < oldest_retained_age(state))
    => /\ reply.full = PyTrue
       /\ reply.diff = state.data
       /\ reply.age = state.age

\* the caller held data of an age whose entry has been pruned
C12_Witness ==
    /\ reply.called /\ reply.since # UnsetAge
    /\ state.diffs # <<>>
    /\ reply.since < oldest_retained_age(state)
    /\ \E i \in 1..Len(snaps) : snaps[i].age = reply.since
    /\ reply.full = PyTrue
    /\ reply.diff = state.data

\* the promotion scenario was run to its end and the diff since t1 asked
PromotionAsked ==
    /\ snaps # <<>>
    /\ Len(snaps) = Len(PromotionAges(snaps[1].age))
    /\ reply.called
    /\ reply.since = snaps[1].age

\* C13 as claimed: at the end of the promotion scenario the query with
\* since = t1 is answered with full = true
C13_PromotionIsFull == PromotionAsked => reply.full = PyTrue

\* C13 as amended: the entry of age t1 is still in the history and the
\* query with since = t1 is answered with its diff, full = false and the
\* age of the last ingest
C13_PromotionKeepsOldest ==
    PromotionAsked =>
        /\ state.diffs[1].age = snaps[1].age
        /\ reply.full = PyFalse
        /\ reply.diff = state.diffs[1].diff
        /\ reply.age = snaps[Len(snaps)].age

\* the scenario ended with entries pruned and the query was answered
C13_Witness ==
    /\ PromotionAsked
    /\ Len(state.diffs) < Len(snaps) - 1
    /\ reply.full = PyFalse

---------------------------------------------------------------------------
(* Properties of the diff algebra (SpecDiff, SpecMerge).                   *)

\* C4: for sentinel-free a and b, apply(a, compute(a, b)) = b
C4_ApplyComputeIsNew == step = "applied" => res = tb

\* a run of C4 where the diff is a dict that deletes a key and recurses
C4_Witness ==
    /\ step = "applied"
    /\ isdict(ta) /\ isdict(tb) /\ ta # tb
    /\ \E k \in DOMAIN ta.kids : k \notin DOMAIN tb.kids
    /\ \E k \in DOMAIN ta.kids \cap DOMAIN tb.kids :
          /\ isdict(ta.kids[k]) /\ isdict(tb.kids[k])
          /\ ta.kids[k] # tb.kids[k]
    /\ res = tb

\* C3: for sentinel-free a, b and c,
\* apply(a, merge(compute(a, b), compute(b, c))) = c
C3_ApplyMergedIsLast == step = "merged" => res = tc

\* C14: merge is associative: merge(merge(x, y), z) = merge(x, merge(y, z))
C14_MergeAssociative == step = "nested" => res.left = res.right

\* C15: the empty map is the identity diff: apply(a, {}) = a for atoms as
\* well as maps
C15_EmptyDiffIsIdentity ==
    (step = "identity" /\ ~HasDelete(ta)) => res = ta

---------------------------------------------------------------------------
(* Properties of the Database under concurrent handlers (SpecDb).          *)

\* C5: the age a reader obtains never decreases between two successive
\* reads
C5_ReaderAgeNeverDecreases ==
    \A r \in Readers :
        (resp[r].status = "ok" /\ resp[r].prev.until # UnsetAge)
        => resp[r].age >= resp[r].prev.until

\* C6: with non-decreasing timestamps, a query whose since is an `until`
\* returned earlier together with tree T, answered with the empty diff by
\* the since >= current_age branch, means that T is the current tree
C6_EmptyDiffMeansUnchanged ==
    \A r \in Readers :
        (/\ disordered = {}
         /\ resp[r].status = "ok"
         /\ resp[r].asked # UnsetAge
         /\ resp[r].asked = resp[r].prev.age
         /\ resp[r].since = resp[r].asked
         /\ resp[r].since >= resp[r].age
         /\ resp[r].full = PyFalse
         /\ resp[r].diff = EmptyDict)
        => resp[r].prev.tree = resp[r].cur

\* C7: every response is what one installed state gives: payload, full
\* and age come from one state triple (and, from the Database, the term
\* descriptor from the ingest that installed it), for the readers that
\* take the lock and for those of the refresh worker that take none
C7_ResponseFromOneState ==
    /\ \A r \in Readers :
        resp[r].status = "ok" =>
            \E v \in versions :
                /\ v.scraper = resp[r].scraper
                /\ v.code = resp[r].term.termCode
                /\ v.desc = resp[r].term
                /\ get_diff_to_present(v.state, resp[r].since)
                      = [diff |-> resp[r].diff, full |-> resp[r].full,
                         age |-> resp[r].age]
    /\ \A c \in V3Readers :
        resp[c].status = "ok" =>
            \E v \in worker_installed :
                IF resp[c].asked = UnsetAge
                THEN /\ resp[c].diff = v.data
                     /\ resp[c].full = PyTrue
                     /\ resp[c].age = v.age
                ELSE get_diff_to_present(v, resp[c].since)
                      = [diff |-> resp[c].diff, full |-> resp[c].full,
                         age |-> resp[c].age]

\* a reader was answered with a diff out of the history of a state that
\* a second ingest installed
C7_Witness ==
    \E r \in Readers :
        /\ resp[r].status = "ok"
        /\ resp[r].full = PyFalse
        /\ resp[r].diff # EmptyDict
        /\ resp[r].age > resp[r].since
        /\ Cardinality(versions) >= 2

\* C8: no two set_current_data calls run at once on one diff manager: a
\* POST handler is inside the call only while it holds the lock, at most
\* one refresh iteration is inside the call, and an iteration has started
\* only when the one before it is over
C8_OneSetCurrentAtATime ==
    /\ \A w \in Writers :
          wpc[w] \in {"set", "install", "terms"} => lock = w
    /\ \A w1, w2 \in Writers :
          (wpc[w1] = "install" /\ wpc[w2] = "install") => w1 = w2
    /\ \A i, j \in Iterations :
          (ipc[i] \in {"append", "install"} /\ ipc[j] \in {"append", "install"})
          => i = j
    /\ \A i \in Iterations :
          (i > 1 /\ ipc[i] \notin {"none", "timer"}) => ipc[i - 1] = "done"

\* a POST handler is inside set_current_data while another one waits for
\* the lock
C8_Witness ==
    \E w1, w2 \in Writers :
        /\ w1 # w2
        /\ wpc[w1] = "install"
        /\ wpc[w2] = "lock"

---------------------------------------------------------------------------
(* Properties of the Database with a catalog of several terms (SpecTerms). *)

\* the (state, descriptor) pair the last of the first `seen` ingests stored
\* for a scraper and a term
last_version(scraper, code, seen) ==
    CHOOSE v \in versions :
        /\ v.scraper = scraper /\ v.code = code /\ v.n <= seen
        /\ \A u \in versions :
              (u.scraper = scraper /\ u.code = code /\ u.n <= seen)
              => u.n <= v.n

\* the query of a response was handed to Database.get_diff_to_present
reached_database(rs) ==
    /\ rs.status # "none"
    /\ ~(rs.asked # UnsetAge /\ rs.current_term = UnsetStr)

\* C16: a query whose current term is not the (resolved) requested term is
\* answered with full = true and the current tree of the requested term,
\* whatever `since` is
C16_CrossTermIsFull ==
    \A r \in Readers :
        (resp[r].status = "ok"
         /\ resp[r].current_term # resp[r].term.termCode)
        => /\ resp[r].full = PyTrue
           /\ resp[r].diff =
                 last_version(resp[r].scraper, resp[r].term.termCode,
                              resp[r].seen).state.data

\* a client of FA2024 data whose `since` is not older than the data of
\* SP2025 was answered with the SP2025 tree
C16_Witness ==
    \E r \in Readers :
        /\ resp[r].status = "ok"
        /\ resp[r].current_term = "FA2024"
        /\ resp[r].term.termCode = "SP2025"
        /\ resp[r].asked # UnsetAge
        /\ resp[r].asked >= resp[r].age
        /\ resp[r].full = PyTrue
        /\ resp[r].diff # EmptyDict

\* C17: a query for a scraper without a completed ingest is answered 503,
\* whatever its other parameters and the ingests of other scrapers, and
\* leaves no trace of the scraper in the catalog
C17_UnknownScraperUnavailable ==
    \A r \in Readers :
        (/\ reached_database(resp[r])
         /\ resp[r].scraper \notin DOMAIN most_recent_terms)
        => /\ resp[r].status = "503"
           /\ (\A w \in Writers : wloc[w].scraper # resp[r].scraper)
              => /\ resp[r].scraper \notin DOMAIN diff_managers
                 /\ resp[r].scraper \notin DOMAIN terms

\* a query with since, current and requested term for a scraper that has
\* no data, while another scraper has two terms, was answered 503
C17_Witness ==
    \E r \in Readers :
        /\ resp[r].status = "503"
        /\ resp[r].scraper = "t"
        /\ resp[r].asked # UnsetAge
        /\ resp[r].current_term # UnsetStr
        /\ "s" \in DOMAIN terms
        /\ Len(terms["s"]) = 2

\* the sort keys stored for a scraper can all be compared with each other
comparable_keys(ts) ==
    \A i, j \in 1..Len(ts) :
        ~list_raises(ts[i].termSortKey, ts[j].termSortKey)

C19_UnsetSinceIsLatestIngest ==
    \A r \in Readers :
        (resp[r].status = "ok" /\ resp[r].asked = UnsetAge)
        => LET v == last_version(resp[r].scraper, resp[r].term.termCode,
                                 resp[r].seen)
           IN  /\ resp[r].diff = v.state.data
               /\ resp[r].full = PyTrue
               /\ resp[r].age = v.state.age
               /\ resp[r].term = v.desc

\* the term was ingested twice, with another descriptor, tree and
\* timestamp the second time, and then queried
C19_Witness ==
    \E r \in Readers :
        /\ resp[r].status = "ok" /\ resp[r].asked = UnsetAge
        /\ resp[r].seen = 2
        /\ \E u, v \in versions :
              /\ u.n = 1 /\ v.n = 2
              /\ u.code = v.code /\ v.code = resp[r].term.termCode
              /\ u.desc # v.desc
              /\ u.state.data # v.state.data
              /\ u.state.age < v.state.age
              /\ resp[r].age = v.state.age

---------------------------------------------------------------------------
(* Properties of the two ingest paths (SpecIngest).                        *)

\* C20: no snapshot installed in a diff manager, by a POST or by the
\* refresh worker, contains the sentinel "$delete"
C20_NoSentinelInstalled ==
    /\ \A scraper \in DOMAIN diff_managers :
          \A code \in DOMAIN diff_managers[scraper] :
              ~HasDelete(diff_managers[scraper][code].data)
    /\ ~HasDelete(worker_state.data)

---------------------------------------------------------------------------
(* Properties of a refresh cycle (SpecCycle, SpecRefresh).                 *)

\* the scrape failed in one of the ways try_compute_data reports: spawn
\* error, timeout, non-zero exit, invalid UTF-8, invalid JSON, or output
\* that contains "$delete"
listed_failure(run) ==
    \/ run.exit \in {"oserror", "timeout", "nonzero"}
    \/ /\ run.exit = "zero"
       /\ (~run.utf8 \/ ~run.json \/ HasDelete(run.out))

\* C21: a refresh cycle whose scrape fails in one of the listed ways
\* leaves the diff manager's (age, tree, history) as it was before the
\* cycle
C21_FailedScrapeKeepsSnapshot ==
    \A i \in Iterations :
        (ipc[i] = "schedule" /\ listed_failure(iloc[i].run))
        => value_of(worker_state) = iloc[i].before

\* a cycle failed after an earlier one had installed a snapshot, with a
\* scraper that printed course data and exited with an error
C21_Witness ==
    \E i \in Iterations :
        /\ ipc[i] = "schedule"
        /\ iloc[i].run.exit = "nonzero"
        /\ iloc[i].run.json
        /\ iloc[i].before.data # Unset
        /\ value_of(worker_state) = iloc[i].before

\* C22: the success webhook is requested only once the cycle's output is
\* installed as the current snapshot, and a cycle that installs nothing
\* requests no webhook
C22_WebhookAfterInstall ==
    \A i \in Iterations :
        /\ iloc[i].hook \in {"ok", "failed"} => ipc[i] = "schedule"
        /\ (ipc[i] = "schedule" /\ iloc[i].data = Unset)
           => iloc[i].hook \notin {"ok", "failed"}

\* the scraper printed course data: a map of courses that are maps, free
\* of the sentinel
valid_output(run) ==
    /\ run.exit = "zero" /\ run.utf8 /\ run.json
    /\ ~HasDelete(run.out)
    /\ "courses" \in DOMAIN run.out.kids
    /\ \A c \in DOMAIN run.out.kids["courses"].kids :
          isdict(run.out.kids["courses"].kids[c])

limited(kind, interval) ==
    \A n \in 1..Len(io) :
        io[n].kind = kind =>
            (io[n].sent <=>
                \A m \in 1..(n - 1) :
                    (io[m].kind = kind /\ io[m].sent)
                    => io[n].at - io[m].at >= interval)

\* C26: remote cache writes are at least 5 minutes apart, and whether a
\* cycle's remote write is performed depends only on the time of the last
\* one performed: every cycle that parsed its output with s3_write enabled
\* asks the limiter, whatever became of the webhook request
C26_RemoteWriteOnlyByItsLimiter ==
    /\ limited("s3_write", 5 * 60)
    /\ \A i \in Iterations :
          (/\ ipc[i] = "schedule"
           /\ env.s3_write
           /\ scrape_error(iloc[i].run) = "none"
           /\ iloc[i].run.exit = "zero")
          => \E n \in 1..Len(io) :
                io[n].kind = "s3_write" /\ io[n].by = i

\* C30: every refresh iteration, failed or not, ends by starting exactly
\* one timer of repeat_delay seconds for the next one, so each iteration
\* that starts is followed by the next
C30_EveryIterationReschedules ==
    /\ [](\A i \in Iterations :
            LET timers == {n \in 1..Len(io) :
                              io[n].kind = "timer" /\ io[n].by = i}
            IN  /\ Cardinality(timers) = IF ipc[i] = "done" THEN 1 ELSE 0
                /\ \A n \in timers : io[n].delay = SCRAPER_REPEAT_DELAY
                /\ (ipc[i] = "done" /\ i + 1 \in Iterations)
                   => ipc[i + 1] # "none")
    /\ \A i \in Iterations : (ipc[i] = "compute") ~> (ipc[i] = "done")
    /\ \A i \in Iterations : (ipc[i] = "timer") ~> (ipc[i] = "compute")

\* a second iteration is running after a first one whose scrape failed
C30_Witness ==
    /\ ipc[1] = "done"
    /\ ipc[2] = "compute"
    /\ worker_installed = {}
    /\ \E n \in 1..Len(io) : io[n].kind = "timer" /\ io[n].by = 1

---------------------------------------------------------------------------
(* Properties of POST /api/v4/courses (SpecPost).                          *)

\* C23: each webhook is rate-limited by its minimum interval: the first
\* request is sent, a notification less than the interval after the last
\* request sent is skipped, a later one is sent; so two requests sent
\* are at least the interval apart
C23_WebhookRateLimited ==
    /\ limited("notify", WEBHOOK_RATE_LIMIT)
    /\ limited("webhook", WEBHOOK_TIMEOUT)

\* C24: when POST /courses has ingested the data and the request to the
\* success webhook fails, the handler still answers {"error": null}
C24_WebhookFailureNotPropagated ==
    \A w \in Writers :
        wresp[w].notified = "failed" => wresp[w].status = "ok"

\* C27: a POST whose body violates the schema is answered with the
\* envelope {"error": message} and leaves the catalog unchanged
C27_InvalidBodyRejected ==
    \A w \in Writers :
        (wresp[w].status # "none" /\ ~wresp[w].schema_ok)
        => /\ wresp[w].status = "error"
           /\ catalog = wresp[w].before

---------------------------------------------------------------------------
(* Properties of the catalog's diff managers (SpecTerms).                  *)

\* the (scraper, term) pairs that have a diff manager
managed ==
    UNION {{<<scraper, code>> : code \in DOMAIN diff_managers[scraper]} :
              scraper \in DOMAIN diff_managers}

\* the (scraper, term) pairs an ingest has given data, those of the
\* ingests that are inside set_current_data included
ingested ==
    {<<v.scraper, v.code>> : v \in versions}
        \cup {<<wloc[w].scraper, wloc[w].term.termCode>> :
                 w \in {x \in Writers : wpc[x] \in {"install", "terms"}}}

\* C28: a query for a scraper that has data, with a requested term that
\* has no diff manager, fails with the not-found error sent as
\* {"error": ...}, whatever since and current_term_code are
C28_UnknownTermNotFound ==
    \A r \in Readers :
        (/\ reached_database(resp[r])
         /\ resp[r].requested_term # UnsetStr
         /\ \E v \in versions :
               v.scraper = resp[r].scraper /\ v.n <= resp[r].seen
         /\ \A v \in versions :
               (v.scraper = resp[r].scraper /\ v.n <= resp[r].seen)
               => v.code # resp[r].requested_term)
        => resp[r].status = "no such term"

\* an incremental query whose current and requested term are the same
\* unknown term, for a scraper with data of another term, was refused
C28_Witness ==
    \E r \in Readers :
        /\ resp[r].status = "no such term"
        /\ resp[r].scraper = "s"
        /\ resp[r].asked # UnsetAge
        /\ resp[r].current_term = "SP2025"
        /\ resp[r].requested_term = "SP2025"
        /\ resp[r].seen >= 1

\* C29: the pairs that have a diff manager are exactly the pairs that
\* were ingested; the set only grows, and only by an ingest's
\* set_current_data, never by a query
C29_ManagersOnlyByIngest ==
    [][/\ managed' = ingested'
       /\ managed \subseteq managed'
       /\ managed' # managed => \E w \in Writers : PostSetEnter(w)]_vars

\* a query for a term that was not ingested has failed, and after two
\* ingests of another term that one has the only manager
C29_Witness ==
    /\ \E r \in Readers :
          /\ resp[r].status = "no such term"
          /\ resp[r].requested_term = "SP2025"
    /\ managed = {<<"s", "FA2024">>}
    /\ Cardinality(versions) = 2

---------------------------------------------------------------------------
(* The merged diff and the snapshots between its ends (SpecMerge).         *)

\* C31: for sentinel-free a, b and c, the merged diff
\* merge(compute(a, b), compute(b, c)) applied to the intermediate tree b
\* yields c
C31_MergedDiffServesMiddle == step = "middle" => res = tc

\* a run of C31 where the first diff removes a key of a that b and c lack
\* and the second changes a nested map, so the merged diff both removes a
\* key that b does not have and recurses into b
C31_Witness ==
    /\ step = "middle"
    /\ isdict(ta) /\ isdict(tb) /\ isdict(tc)
    /\ tb # tc /\ ta # tb
    /\ LET merged == merge_diffs(compute_diff(ta, tb), compute_diff(tb, tc))
       IN  /\ isdict(merged)
           /\ \E k \in DOMAIN merged.kids :
                 /\ k \in DOMAIN tb.kids
                 /\ isdict(merged.kids[k]) /\ isdict(tb.kids[k])
                 /\ \E j \in DOMAIN merged.kids[k].kids :
                       /\ merged.kids[k].kids[j] = Delete
                       /\ j \notin DOMAIN tb.kids[k].kids
    /\ res = tc

---------------------------------------------------------------------------
(* The diff since the preceding snapshot (SpecPrune).                      *)

\* C32: with strictly increasing ages, get_diff_to_present(since) with
\* since the age of the snapshot immediately preceding the current one
\* returns exactly compute(previous_tree, current_tree), with full = False
\* and age = current_age
C32_SincePreviousIsComputed ==
    (/\ reply.called
     /\ StrictAges
     /\ Len(snaps) >= 2
     /\ reply.since = snaps[Len(snaps) - 1].age)
    => /\ reply.diff = compute_diff(snaps[Len(snaps) - 1].data,
                                    snaps[Len(snaps)].data)
       /\ reply.full = PyFalse
       /\ reply.age = snaps[Len(snaps)].age

\* the key "x" was removed by the last of three calls, older entries were
\* kept, and the diff since the preceding age is {"x": "$delete"}
C32_Witness ==
    /\ reply.called
    /\ Len(snaps) >= 3
    /\ Len(state.diffs) >= 2
    /\ reply.since = snaps[Len(snaps) - 1].age
    /\ snaps[Len(snaps) - 1].data = Single("x", Atom("a"))
    /\ snaps[Len(snaps)].data = EmptyDict
    /\ reply.diff = Single("x", Delete)
    /\ reply.full = PyFalse

---------------------------------------------------------------------------
(* The scraper process of a refresh cycle (SpecCycle).                     *)

\* C33: at most one scraper process started by the refresh worker is alive
\* at any time: a cycle that is past compute_data, or has ended and
\* scheduled the next one, has no process left, and a process that
\* exceeded the timeout has been killed and reaped and what it wrote is
\* not installed
C33_OneScraperProcessAlive ==
    /\ Cardinality({i \in Iterations : alive(i)}) <= 1
    /\ \A i \in Iterations :
          /\ ipc[i] \notin {"communicate", "kill"} => ~alive(i)
          /\ (ipc[i] = "schedule" /\ iloc[i].run.exit = "timeout")
             => /\ \E n \in 1..Len(io) :
                      io[n].kind = "reap" /\ io[n].by = i
                /\ iloc[i].data = Unset
                /\ value_of(worker_state) = iloc[i].before

\* the second cycle's process had written course data when it timed out
\* and was killed and reaped, after the first cycle's process had exited
\* and its output had been installed, which stays the current snapshot
C33_Witness ==
    /\ ipc[1] = "done"
    /\ ipc[2] = "schedule"
    /\ iloc[2].run.exit = "timeout"
    /\ iloc[2].run.json
    /\ \E n \in 1..Len(io) : io[n].kind = "exit" /\ io[n].by = 1
    /\ \E n \in 1..Len(io) : io[n].kind = "reap" /\ io[n].by = 2
    /\ ~alive(1) /\ ~alive(2)
    /\ iloc[2].before.data # Unset
    /\ value_of(worker_state) = iloc[2].before

\* C34: a failed success-webhook request is only logged: the cycle goes on
\* to the same durable-cache writes as after a successful request, the
\* local file when "cache" is set and the rate-limited remote write when
\* "s3_write" is set
C34_FailedWebhookOnlyLogged ==
    \A i \in Iterations :
        (ipc[i] \in {"merge", "set", "schedule"} /\ iloc[i].hook = "failed")
        => /\ env.cache
              => \E n \in 1..Len(io) : io[n].kind = "cache" /\ io[n].by = i
           /\ env.s3_write
              => \E n \in 1..Len(io) :
                    io[n].kind = "s3_write" /\ io[n].by = i

---------------------------------------------------------------------------
(* A DiffManager that was never given data (Spec).                         *)

\* C35: while set_current_data has never been called, get_diff_to_present
\* returns Unset for all three elements of (diff, full, age), for every
\* since including Unset
C35_EmptyManagerAnswersUnset ==
    (reply.called /\ snaps = <<>>)
    => /\ reply.diff = Unset
       /\ reply.full = UnsetFull
       /\ reply.age = UnsetAge

---------------------------------------------------------------------------
(* The prune step of set_current_data (SpecPrune).                         *)

\* the entries of history h at the positions in K, in order
KeptAt(h, K) ==
    [k \in 1..Cardinality(K) |->
        h[CHOOSE i \in K : Cardinality({j \in K : j < i}) = k - 1]]

\* the ages of a history
AgesOf(h) == [k \in 1..Len(h) |-> h[k].age]

\* C36: in set_current_data(new_age, .) an entry of the history is dropped
\* exactly when new_age - entry.age < 2^(number of newer surviving
\* entries); so the j-th newest surviving pre-existing entry has
\* new_age - age >= 2^(j-1), and the entry appended for the replaced
\* snapshot is never pruned in the same call
C36_PruneByDoublingGap ==
    [][snaps' # snaps =>
        LET old == state.diffs
            new_age == state'.age
            appended == IF state.data # Unset THEN <<state.age>> ELSE <<>>
        IN  \E K \in SUBSET (1..Len(old)) :
              /\ \A i \in 1..Len(old) :
                    i \in K <=>
                       new_age - old[i].age
                          >= 2^Cardinality({j \in K : j > i})
              /\ AgesOf(state'.diffs) = AgesOf(KeptAt(old, K)) \o appended
              /\ \A k \in 1..Cardinality(K) :
                    new_age - state'.diffs[Cardinality(K) + 1 - k].age
                       >= 2^(k - 1)
    ]_vars

\* the sixth call dropped the oldest entry, whose gap to new_age was below
\* 2^3 with three newer entries surviving, and kept those three, the third
\* newest with a gap of at least 2^2, next to the entry appended for the
\* replaced snapshot
C36_Witness ==
    /\ Len(snaps) = 6
    /\ Len(state.diffs) = 4
    /\ state.diffs[4].age = snaps[5].age
    /\ \A k \in 1..4 : state.diffs[k].age # snaps[1].age
    /\ state.age - snaps[1].age < 2^3
    /\ state.diffs[1].age = snaps[2].age
    /\ state.age - state.diffs[1].age >= 2^2

---------------------------------------------------------------------------
(* The catalog maps between ingests (SpecCatalog).                         *)

\* C38: whenever no ingest is executing, also after one that raised
\* part-way, terms and diff_managers have the same (scraper, term) keys, a
\* scraper is a key of most_recent_terms iff it has a diff manager, and
\* most_recent_terms[s] is one of the descriptors stored in terms[s]
C38_CatalogMapsAgree ==
    (\A w \in Writers : wpc[w] = "idle")
    => /\ DOMAIN terms = DOMAIN diff_managers
       /\ \A s \in DOMAIN terms :
             {terms[s][i].termCode : i \in 1..Len(terms[s])}
                = DOMAIN diff_managers[s]
       /\ DOMAIN most_recent_terms
             = {s \in DOMAIN diff_managers : DOMAIN diff_managers[s] # {}}
       /\ \A s \in DOMAIN most_recent_terms :
             \E i \in 1..Len(terms[s]) : terms[s][i] = most_recent_terms[s]

---------------------------------------------------------------------------
(* The diff code of hyperschedule/api and of hyperschedule/worker.py       *)
(* (SpecBoth).                                                             *)

\* C39: the two copies are interchangeable: compute_diff, apply_diff and
\* merge_diffs return equal results for equal inputs, the two
\* set_current_data produce equal (age, tree, history) states for equal
\* call sequences, and get_diff_to_present gives equal answers for every
\* integer since
C39_CopiesInterchangeable ==
    /\ step \in {"compute", "apply", "merge"} => res.api = res.worker
    /\ step = "off" =>
          /\ value_of(worker_state) = state
          /\ reply.called =>
                res = [diff |-> reply.diff, full |-> reply.full,
                       age |-> reply.age]

\* after three calls both managers hold two history entries whose diffs
\* were merged, and both answer a `since` between their ages with the
\* older one's diff
C39_Witness ==
    /\ step = "off"
    /\ Len(snaps) = 3
    /\ Len(state.diffs) = 2
    /\ reply.called
    /\ reply.since >= state.diffs[1].age
    /\ reply.since < state.diffs[2].age
    /\ reply.full = PyFalse
    /\ isdict(reply.diff) /\ reply.diff # EmptyDict
    /\ reply.diff # state.diffs[2].diff
    /\ res.diff = reply.diff
    /\ value_of(worker_state).diffs = state.diffs

---------------------------------------------------------------------------
(* The tasks of the CU Boulder scraper (SpecScraper).                      *)

\* C37: under any interleaving of the threads of process_parallel each
\* task fetches the CRN of the loop iteration that created it; so when no
\* task raises and the deadline is not reached, every CRN of the list is
\* fetched exactly once
C37_TaskFetchesItsOwnCRN ==
    /\ \A t \in Threads :
          threads[t].pc = "fetch" => threads[t].crn = crns[threads[t].task]
    /\ (parallel.returned = PyTrue /\ ~parallel.expired)
       => \A n \in 1..NumCRNs : fetched[crns[n]] = 1

---------------------------------------------------------------------------
(* The legacy v2 server (SpecLegacy).                                      *)

\* the index that was current at `since` for an answer given at `now`:
\* the one of the last update applied at or before both
IndexAt(since, now) ==
    LET ns == {n \in 1..Len(applied) : /\ applied[n].timestamp <= since
                                       /\ applied[n].timestamp <= now}
    IN  applied[CHOOSE n \in ns : \A m \in ns : m <= n].index

\* an index after a client applies the diff of a response to it
ClientApply(index, diff) ==
    LET gone == {c.key : c \in diff.removed}
        keys == (DOMAIN index \ gone)
                \cup {c.key : c \in diff.added \cup diff.modified}
        add(k) == {c \in diff.added : c.key = k}
        mod(k) == {c \in diff.modified : c.key = k}
        base(k) == IF add(k) # {} THEN CHOOSE c \in add(k) : TRUE
                   ELSE IF k \in DOMAIN index \ gone THEN index[k]
                   ELSE [key |-> k]
        change(k) == IF mod(k) # {} THEN CHOOSE c \in mod(k) : TRUE
                     ELSE [key |-> k]
    IN  [k \in keys |->
            [a \in DOMAIN base(k) \cup DOMAIN change(k) |->
                IF a \in DOMAIN change(k) THEN change(k)[a] ELSE base(k)[a]]]

\* C40: whenever courses-since answers with incremental true, the diff
\* accounts for every update applied after `since`: applied to the index
\* that was current at `since` it gives the index current at the answer,
\* after any number of updates, more than MAX_UPDATES_SAVED included
C40_IncrementalDiffIsComplete ==
    (served.status = 200 /\ served.incremental)
    => ClientApply(IndexAt(served.since, served.timestamp), served.diff)
       = IndexAt(served.timestamp, served.timestamp)

=============================================================================
